---- MODULE Spec2Model ----
(***************************************************************************)
(* Model of oscd-replace-ieds: the supervision allocator / remover of the  *)
(* subscription foundation and the device replacement of the plugin.       *)
(*                                                                         *)
(* The SCL document is a store of element nodes.  A node id is an index    *)
(* into the store; node 1 is the documentElement (SCL).  Each node has a   *)
(* tag, an attribute map (only present attributes are in its domain), a    *)
(* text (the textContent of a leaf), the ordered list of its children and  *)
(* its parent.  Nodes with parent 0 other than node 1 are detached         *)
(* (created, cloned or removed elements).                                  *)
(***************************************************************************)
EXTENDS Integers, Sequences, FiniteSets, TLC

VARIABLES doc, last, run, dispatched

vars == <<doc, last, run, dispatched>>

----------------------------------------------------------------------------
(* Bounds of the model.                                                    *)

MaxCap == 2          \* numeric capacities maxGo / maxSv are drawn from 0..MaxCap
MaxSlots == 1        \* at most this many LGOS / LSVS logical nodes initially
MaxGse == 1          \* at most this many GSEControl per LN0 initially

----------------------------------------------------------------------------
(* JavaScript values that are not strings.                                 *)

Null == "<null>"             \* the value null (absent attribute, no match)
Undefined == "<undefined>"   \* the value undefined (optional chain broke)

Range(s) == {s[i] : i \in 1..Len(s)}

\* `${v}` inside a template literal
Str(v) == IF v = Null THEN "null" ELSE IF v = Undefined THEN "undefined" ELSE v

\* v ?? dflt
Coalesce(v, dflt) == IF v \in {Null, Undefined} THEN dflt ELSE v

\* !v for a string-or-null value
Falsy(v) == v \in {Null, Undefined, ""}

----------------------------------------------------------------------------
(* DOM accessors.  d is a store, n a node id, 0 is "no element".           *)

NoAttrs == [a \in {} |-> ""]

Elem(tag, attrs, text) ==
  [tag |-> tag, attrs |-> attrs, text |-> text, kids |-> <<>>, parent |-> 0]

\* document.createElementNS: a new detached element, id Len(d) + 1
createElement(d, tag, attrs, text) == Append(d, Elem(tag, attrs, text))

Tag(d, n) == IF n = 0 THEN Undefined ELSE d[n].tag

hasAttribute(d, n, a) == n # 0 /\ a \in DOMAIN d[n].attrs

\* element?.getAttribute(a)
getAttribute(d, n, a) ==
  IF n = 0 THEN Undefined
  ELSE IF a \in DOMAIN d[n].attrs THEN d[n].attrs[a] ELSE Null

setAttribute(d, n, a, v) ==
  [d EXCEPT ![n].attrs = [x \in (DOMAIN @) \cup {a} |-> IF x = a THEN v ELSE @[x]]]

textContent(d, n) == d[n].text

parentElement(d, n) == IF n = 0 THEN 0 ELSE d[n].parent

\* parent.appendChild(n) of a detached element n
appendChild(d, p, n) == [d EXCEPT ![p].kids = Append(@, n), ![n].parent = p]

IndexOf(s, x) == IF x \in Range(s) THEN CHOOSE i \in 1..Len(s) : s[i] = x ELSE 0

nextElementSibling(d, n) ==
  LET p == parentElement(d, n) IN
  IF p = 0 THEN 0
  ELSE LET i == IndexOf(d[p].kids, n) IN
       IF i < Len(d[p].kids) THEN d[p].kids[i + 1] ELSE 0

previousElementSibling(d, n) ==
  LET p == parentElement(d, n) IN
  IF p = 0 THEN 0
  ELSE LET i == IndexOf(d[p].kids, n) IN
       IF i > 1 THEN d[p].kids[i - 1] ELSE 0

RECURSIVE Pre(_, _), PreSeq(_, _)
\* n and its descendants in document order
Pre(d, n) == <<n>> \o PreSeq(d, d[n].kids)
PreSeq(d, ks) == IF ks = <<>> THEN <<>> ELSE Pre(d, Head(ks)) \o PreSeq(d, Tail(ks))

\* the descendants of n in document order
Descendants(d, n) == Tail(Pre(d, n))

First(s) == IF s = <<>> THEN 0 ELSE s[1]

\* const x = v; rest: the rest of a function body with x standing for v
Let(v, Rest(_)) == Rest(v)

\* element.querySelectorAll / querySelector with the selector given as a test
querySelectorAll(d, n, Match(_)) == SelectSeq(Descendants(d, n), Match)
querySelector(d, n, Match(_)) == First(querySelectorAll(d, n, Match))

\* document.querySelectorAll: the documentElement can match as well
docQuerySelectorAll(d, Match(_)) == SelectSeq(Pre(d, 1), Match)
docQuerySelector(d, Match(_)) == First(docQuerySelectorAll(d, Match))

RECURSIVE closest(_, _, _)
\* element.closest('T1,T2'): the element itself or its nearest ancestor
closest(d, n, tags) ==
  IF n = 0 THEN 0
  ELSE IF d[n].tag \in tags THEN n
  ELSE closest(d, parentElement(d, n), tags)

\* simple selector T[a="v"]
Is(d, n, tag, a, v) == n # 0 /\ d[n].tag = tag /\ getAttribute(d, n, a) = v

----------------------------------------------------------------------------
(* Subtrees as values: cloning and the canonical form of a store.          *)

RECURSIVE ToTree(_, _), ToTrees(_, _)
ToTree(d, n) ==
  [tag |-> d[n].tag, attrs |-> d[n].attrs, text |-> d[n].text,
   kids |-> ToTrees(d, d[n].kids)]
ToTrees(d, ks) ==
  IF ks = <<>> THEN <<>> ELSE <<ToTree(d, Head(ks))>> \o ToTrees(d, Tail(ks))

RECURSIVE Size(_), Sizes(_)
\* the number of nodes of a tree, of a list of trees
Size(t) == 1 + Sizes(t.kids)
Sizes(ts) == IF ts = <<>> THEN 0 ELSE Size(Head(ts)) + Sizes(Tail(ts))

RECURSIVE Flat(_, _, _), FlatKids(_, _, _)
\* the nodes of the tree t in document order, numbered from base + 1
Flat(t, base, parent) ==
  LET id == base + 1
      kidIds == [j \in 1..Len(t.kids) |-> id + 1 + Sizes(SubSeq(t.kids, 1, j - 1))]
  IN <<[tag |-> t.tag, attrs |-> t.attrs, text |-> t.text, kids |-> kidIds,
        parent |-> parent]>>
       \o FlatKids(t.kids, id + 1, id)
FlatKids(ts, next, parent) ==
  IF ts = <<>> THEN <<>>
  ELSE Flat(Head(ts), next - 1, parent)
         \o FlatKids(Tail(ts), next + Size(Head(ts)), parent)

\* append the tree t to the store as a detached subtree rooted at Len(d) + 1
AddTree(d, t) == d \o Flat(t, Len(d), 0)

\* the subtree of n copied to a store of its own, its nodes numbered from
\* base + 1 in document order
CopyOf(d, n, base) ==
  LET P == Pre(d, n)
      pos == [m \in 1..Len(d) |-> IndexOf(P, m)]
      Id(m) == IF pos[m] = 0 THEN 0 ELSE base + pos[m]
  IN [i \in 1..Len(P) |->
        [tag |-> d[P[i]].tag, attrs |-> d[P[i]].attrs, text |-> d[P[i]].text,
         kids |-> [j \in 1..Len(d[P[i]].kids) |-> Id(d[P[i]].kids[j])],
         parent |-> IF i = 1 THEN 0 ELSE Id(d[P[i]].parent)]]

\* node.cloneNode(true) / document.importNode(node, true): the clone is the
\* node Len(d) + 1 of the result
cloneNode(d, n) == d \o CopyOf(d, n, Len(d))

\* Once a handler has returned nothing refers to detached nodes any more;
\* the store is kept as the attached nodes, numbered in document order.
Normalize(d) == CopyOf(d, 1, 0)

\* the id in Normalize(d) of node n of d (0 when n is detached)
Remap(d, n) == IndexOf(Pre(d, 1), n)

----------------------------------------------------------------------------
(* Edits and their application by the host (open-scd-core).                *)

Remove(n) == [op |-> "Remove", node |-> n, parent |-> 0, reference |-> 0]
Insert(p, n, r) == [op |-> "Insert", node |-> n, parent |-> p, reference |-> r]

Without(s, x) == SelectSeq(s, LAMBDA y : y # x)

InsertAt(s, i, x) == SubSeq(s, 1, i - 1) \o <<x>> \o SubSeq(s, i, Len(s))

Detach(d, n) ==
  LET p == parentElement(d, n) IN
  IF p = 0 THEN d ELSE [d EXCEPT ![p].kids = Without(@, n), ![n].parent = 0]

\* Remove takes the node out of its parent.  Insert puts the node before the
\* reference, or last when there is no reference; an Insert the DOM refuses
\* (no node, no parent, a reference that is no child of the parent, a node
\* that contains the parent) changes nothing.
handleEdit(d, e) ==
  IF e.op = "Remove" THEN (IF e.node = 0 THEN d ELSE Detach(d, e.node))
  ELSE IF \/ e.node = 0 \/ e.parent = 0
          \/ e.parent \in Range(Pre(d, e.node))
          \/ (e.reference # 0 /\ e.reference \notin Range(d[e.parent].kids))
    THEN d
  ELSE LET ref == IF e.reference = e.node
                    THEN nextElementSibling(d, e.node) ELSE e.reference
           d1 == Detach(d, e.node)
           ks == d1[e.parent].kids
       IN [d1 EXCEPT ![e.parent].kids =
                       IF ref = 0 THEN Append(ks, e.node)
                       ELSE InsertAt(ks, IndexOf(ks, ref), e.node),
                     ![e.node].parent = e.parent]

RECURSIVE handleEdits(_, _)
\* a batch is applied action by action, in list order
handleEdits(d, es) ==
  IF es = <<>> THEN d ELSE handleEdits(handleEdit(d, Head(es)), Tail(es))

----------------------------------------------------------------------------
(* The subscription foundation: schema edition and reference strings.      *)

getSclSchemaVersion(d) ==
  Coalesce(getAttribute(d, 1, "version"), "2003")
    \o Coalesce(getAttribute(d, 1, "revision"), "")
    \o Coalesce(getAttribute(d, 1, "release"), "")

\* controlBlockReference that leaves the name of the control block out
controlBlockReference_NoName(d, controlBlock) ==
  IF controlBlock = 0 THEN Null
  ELSE
    LET anyLn == closest(d, controlBlock, {"LN", "LN0"})
        prefix == Coalesce(getAttribute(d, anyLn, "prefix"), "")
        lnClass == getAttribute(d, anyLn, "lnClass")
        lnInst == Coalesce(getAttribute(d, anyLn, "inst"), "")
        ldInst == getAttribute(d, closest(d, controlBlock, {"LDevice"}), "inst")
        iedName == getAttribute(d, closest(d, controlBlock, {"IED"}), "name")
    IN Str(iedName) \o Str(ldInst) \o "/" \o prefix \o Str(lnClass) \o lnInst \o "."

\* the string pointer to a control block, Null when there is none
controlBlockReference(d, controlBlock) ==
  IF controlBlock = 0 THEN Null
  ELSE
    LET anyLn == closest(d, controlBlock, {"LN", "LN0"})
        prefix == Coalesce(getAttribute(d, anyLn, "prefix"), "")
        lnClass == getAttribute(d, anyLn, "lnClass")
        lnInst == Coalesce(getAttribute(d, anyLn, "inst"), "")
        ldInst == getAttribute(d, closest(d, controlBlock, {"LDevice"}), "inst")
        iedName == getAttribute(d, closest(d, controlBlock, {"IED"}), "name")
        cbName == getAttribute(d, controlBlock, "name")
    IN IF Falsy(cbName) /\ Falsy(iedName) /\ Falsy(ldInst) /\ Falsy(lnClass)
         THEN Null
         ELSE Str(iedName) \o Str(ldInst) \o "/" \o prefix \o Str(lnClass)
                \o lnInst \o "." \o Str(cbName)

\* val.textContent === controlBlockReference(controlBlock)
TextIsReference(d, val, controlBlock) ==
  LET ref == controlBlockReference(d, controlBlock) IN
  ref # Null /\ textContent(d, val) = ref

SupervisionType(cbTagName) == IF cbTagName = "GSEControl" THEN "LGOS" ELSE "LSVS"

SupervisionName(supervisionType) ==
  IF supervisionType = "LGOS" THEN "GoCBRef" ELSE "SvCBRef"

\* LN[lnClass="T"]
IsSupervisionLN(d, n, supervisionType) == Is(d, n, "LN", "lnClass", supervisionType)

\* DOI[name="N"]>DAI[name="setSrcRef"]
IsSetSrcRef(d, n, supervisionName) ==
  /\ Is(d, n, "DAI", "name", "setSrcRef")
  /\ Is(d, parentElement(d, n), "DOI", "name", supervisionName)

\* DOI[name="N"]>DAI[name="setSrcRef"]>Val
IsSetSrcRefVal(d, n, supervisionName) ==
  Tag(d, n) = "Val" /\ IsSetSrcRef(d, parentElement(d, n), supervisionName)

\* the Val elements of the LGOS / LSVS instances of an IED
getSupervisionCbRefs(d, ied, cbTagName) ==
  LET supervisionType == SupervisionType(cbTagName)
      supervisionName == SupervisionName(supervisionType)
  IN querySelectorAll(d, ied, LAMBDA n :
       /\ IsSetSrcRefVal(d, n, supervisionName)
       /\ LET ln == parentElement(d, parentElement(d, parentElement(d, n))) IN
          \/ Is(d, ln, "LN", "lnClass", supervisionType)
          \/ Is(d, ln, "LN0", "lnClass", supervisionType))

Allows(valKind, valImport) == valKind \in {"RO", "Conf"} /\ valImport = "true"

\* isSupervisionModificationAllowed that looks at the setSrcRef of any
\* supervision LN of the device, not of the first
isSupervisionModificationAllowed_AnyInstance(d, ied, supervisionType) ==
  LET firstSupervisionLN ==
        querySelector(d, ied, LAMBDA n : IsSupervisionLN(d, n, supervisionType))
      supervisionName == SupervisionName(supervisionType)
      dai == querySelector(d, ied, LAMBDA n :
               /\ IsSetSrcRef(d, n, supervisionName)
               /\ IsSupervisionLN(d, closest(d, n, {"LN"}), supervisionType))
      lNodeType == Str(getAttribute(d, firstSupervisionLN, "lnType"))
      lnClass == Str(getAttribute(d, firstSupervisionLN, "lnClass"))
      doName == IF lnClass = "LGOS" THEN "GoCBRef" ELSE "SvCBRef"
      dObj == docQuerySelector(d, LAMBDA n :
                /\ Is(d, n, "DO", "name", doName)
                /\ Is(d, parentElement(d, n), "LNodeType", "id", lNodeType)
                /\ getAttribute(d, parentElement(d, n), "lnClass") = lnClass
                /\ Tag(d, parentElement(d, parentElement(d, n))) = "DataTypeTemplates")
      dORef == Str(getAttribute(d, dObj, "type"))
      daObj == docQuerySelector(d, LAMBDA n :
                 /\ Is(d, n, "DA", "name", "setSrcRef")
                 /\ Is(d, parentElement(d, n), "DOType", "id", dORef)
                 /\ Tag(d, parentElement(d, parentElement(d, n))) = "DataTypeTemplates")
  IN IF firstSupervisionLN = 0 THEN FALSE
     ELSE IF Allows(getAttribute(d, dai, "valKind"), getAttribute(d, dai, "valImport"))
       THEN TRUE
     ELSE IF dObj # 0 /\ daObj # 0
       THEN Allows(getAttribute(d, daObj, "valKind"), getAttribute(d, daObj, "valImport"))
     ELSE FALSE

isSupervisionModificationAllowed(d, ied, supervisionType) ==
  LET firstSupervisionLN ==
        querySelector(d, ied, LAMBDA n : IsSupervisionLN(d, n, supervisionType))
      supervisionName == SupervisionName(supervisionType)
      dai == querySelector(d, firstSupervisionLN,
               LAMBDA n : IsSetSrcRef(d, n, supervisionName))
      lNodeType == Str(getAttribute(d, firstSupervisionLN, "lnType"))
      lnClass == Str(getAttribute(d, firstSupervisionLN, "lnClass"))
      doName == IF lnClass = "LGOS" THEN "GoCBRef" ELSE "SvCBRef"
      dObj == docQuerySelector(d, LAMBDA n :
                /\ Is(d, n, "DO", "name", doName)
                /\ Is(d, parentElement(d, n), "LNodeType", "id", lNodeType)
                /\ getAttribute(d, parentElement(d, n), "lnClass") = lnClass
                /\ Tag(d, parentElement(d, parentElement(d, n))) = "DataTypeTemplates")
      dORef == Str(getAttribute(d, dObj, "type"))
      daObj == docQuerySelector(d, LAMBDA n :
                 /\ Is(d, n, "DA", "name", "setSrcRef")
                 /\ Is(d, parentElement(d, n), "DOType", "id", dORef)
                 /\ Tag(d, parentElement(d, parentElement(d, n))) = "DataTypeTemplates")
  IN IF firstSupervisionLN = 0 THEN FALSE
     ELSE IF Allows(getAttribute(d, dai, "valKind"), getAttribute(d, dai, "valImport"))
       THEN TRUE
     ELSE IF dObj # 0 /\ daObj # 0
       THEN Allows(getAttribute(d, daObj, "valKind"), getAttribute(d, daObj, "valImport"))
     ELSE FALSE

\* parseInt(s, 10) of the strings the model uses: the decimal numeral that
\* s is or begins with; -1 stands for NaN
parseInt(s) ==
  IF \E i \in 0..(MaxCap + 1) : s \in {ToString(i), ToString(i) \o "x"}
    THEN CHOOSE i \in 0..(MaxCap + 1) : s \in {ToString(i), ToString(i) \o "x"}
    ELSE -1

\* maxSupervisions that takes an undeclared capacity for 1
maxSupervisions_DefaultOne(d, subscriberIED, controlBlockType) ==
  LET maxAttr == IF controlBlockType = "GSEControl" THEN "maxGo" ELSE "maxSv"
      sup == querySelector(d, subscriberIED, LAMBDA n :
               Tag(d, n) = "SupSubscription"
                 /\ Tag(d, parentElement(d, n)) = "Services")
      maxValues == parseInt(Coalesce(getAttribute(d, sup, maxAttr), "1"))
  IN IF maxValues = -1 THEN 1 ELSE maxValues

maxSupervisions(d, subscriberIED, controlBlockType) ==
  LET maxAttr == IF controlBlockType = "GSEControl" THEN "maxGo" ELSE "maxSv"
      sup == querySelector(d, subscriberIED, LAMBDA n :
               Tag(d, n) = "SupSubscription"
                 /\ Tag(d, parentElement(d, n)) = "Services")
      maxValues == parseInt(Coalesce(getAttribute(d, sup, maxAttr), "0"))
  IN IF maxValues = -1 THEN 0 ELSE maxValues

instantiatedSupervisionsCount(d, subscriberIED, controlBlock) ==
  Len(SelectSeq(getSupervisionCbRefs(d, subscriberIED, Tag(d, controlBlock)),
                LAMBDA val : textContent(d, val) # ""))

\* isSupervisionAllowed without the capacity test
isSupervisionAllowed_NoCapacity(d, controlBlock, subscriberIED, supervisionType) ==
  /\ getSclSchemaVersion(d) # "2003"
  /\ querySelector(d, subscriberIED,
                   LAMBDA n : IsSupervisionLN(d, n, supervisionType)) # 0
  /\ SelectSeq(getSupervisionCbRefs(d, subscriberIED, Tag(d, controlBlock)),
               LAMBDA val : TextIsReference(d, val, controlBlock)) = <<>>

\* isSupervisionAllowed without the test for a record of the control block
isSupervisionAllowed_NoDuplicateTest(d, controlBlock, subscriberIED, supervisionType) ==
  /\ getSclSchemaVersion(d) # "2003"
  /\ querySelector(d, subscriberIED,
                   LAMBDA n : IsSupervisionLN(d, n, supervisionType)) # 0
  /\ maxSupervisions(d, subscriberIED, Tag(d, controlBlock))
       > instantiatedSupervisionsCount(d, subscriberIED, controlBlock)

\* isSupervisionAllowed with the capacity test off by one
isSupervisionAllowed_OffByOne(d, controlBlock, subscriberIED, supervisionType) ==
  /\ getSclSchemaVersion(d) # "2003"
  /\ querySelector(d, subscriberIED,
                   LAMBDA n : IsSupervisionLN(d, n, supervisionType)) # 0
  /\ SelectSeq(getSupervisionCbRefs(d, subscriberIED, Tag(d, controlBlock)),
               LAMBDA val : TextIsReference(d, val, controlBlock)) = <<>>
  /\ maxSupervisions(d, subscriberIED, Tag(d, controlBlock))
       >= instantiatedSupervisionsCount(d, subscriberIED, controlBlock)

isSupervisionAllowed(d, controlBlock, subscriberIED, supervisionType) ==
  IF getSclSchemaVersion(d) = "2003" THEN FALSE
  ELSE IF querySelector(d, subscriberIED,
            LAMBDA n : IsSupervisionLN(d, n, supervisionType)) = 0 THEN FALSE
  ELSE IF SelectSeq(getSupervisionCbRefs(d, subscriberIED, Tag(d, controlBlock)),
                    LAMBDA val : TextIsReference(d, val, controlBlock)) # <<>>
    THEN FALSE
  ELSE IF maxSupervisions(d, subscriberIED, Tag(d, controlBlock))
            <= instantiatedSupervisionsCount(d, subscriberIED, controlBlock)
    THEN FALSE
  ELSE TRUE

----------------------------------------------------------------------------
(* Supervision remover.                                                    *)

\* Private[type="OpenSCD.create"]
IsOpenScdCreate(d, n) == Is(d, n, "Private", "type", "OpenSCD.create")

\* removeSubscriptionSupervision that removes the LN whoever made it
removeSubscriptionSupervision_AlwaysLN(d, controlBlock, subscriberIED) ==
  IF controlBlock = 0 \/ subscriberIED = 0 THEN <<>>
  ELSE
    LET valElement ==
          First(SelectSeq(getSupervisionCbRefs(d, subscriberIED, Tag(d, controlBlock)),
                          LAMBDA val : TextIsReference(d, val, controlBlock)))
        lnElement == closest(d, valElement, {"LN0", "LN"})
    IN IF valElement = 0 THEN <<>>
       ELSE IF lnElement = 0 \/ parentElement(d, lnElement) = 0 THEN <<>>
       ELSE <<Remove(lnElement)>>

\* removeSubscriptionSupervision that takes the first supervision Val of
\* the device, whatever its text
removeSubscriptionSupervision_AnyReference(d, controlBlock, subscriberIED) ==
  IF controlBlock = 0 \/ subscriberIED = 0 THEN <<>>
  ELSE
    LET valElement ==
          First(getSupervisionCbRefs(d, subscriberIED, Tag(d, controlBlock)))
        lnElement == closest(d, valElement, {"LN0", "LN"})
        isOpenScdCreated ==
          querySelector(d, lnElement, LAMBDA n : IsOpenScdCreate(d, n)) # 0
    IN IF valElement = 0 THEN <<>>
       ELSE IF lnElement = 0 \/ parentElement(d, lnElement) = 0 THEN <<>>
       ELSE IF isOpenScdCreated THEN <<Remove(lnElement)>>
       ELSE <<Remove(closest(d, valElement, {"DOI"}))>>

removeSubscriptionSupervision(d, controlBlock, subscriberIED) ==
  IF controlBlock = 0 \/ subscriberIED = 0 THEN <<>>
  ELSE
    LET valElement ==
          First(SelectSeq(getSupervisionCbRefs(d, subscriberIED, Tag(d, controlBlock)),
                          LAMBDA val : TextIsReference(d, val, controlBlock)))
        lnElement == closest(d, valElement, {"LN0", "LN"})
        isOpenScdCreated ==
          querySelector(d, lnElement, LAMBDA n : IsOpenScdCreate(d, n)) # 0
    IN IF valElement = 0 THEN <<>>
       ELSE IF lnElement = 0 \/ parentElement(d, lnElement) = 0 THEN <<>>
       ELSE IF isOpenScdCreated THEN <<Remove(lnElement)>>
       ELSE <<Remove(closest(d, valElement, {"DOI"}))>>

----------------------------------------------------------------------------
(* Supervision allocator.  The operations that create elements return the  *)
(* store with the new (detached) elements together with their result.      *)

\* lnInstRange of the foundation: the instance numbers 1..99
LnInstRangeMax == 99

\* the lowest instance number no given LN uses, Undefined when all are used
minAvailableLogicalNodeInstance(d, lnElements) ==
  LET lnInsts == {Coalesce(getAttribute(d, lnElements[i], "inst"), "") :
                    i \in DOMAIN lnElements}
      free == {i \in 1..LnInstRangeMax : ToString(i) \notin lnInsts}
  IN IF free = {} THEN Undefined
     ELSE ToString(CHOOSE i \in free : \A j \in free : i <= j)

\* createNewSupervisionLnInst that does not put the Private marker into the LN
createNewSupervisionLnInst_NoMarker(d, controlBlock, subscriberIED, supervisionType) ==
  LET newLN == Len(d) + 1
      openScdTag == Len(d) + 2
      d1 == createElement(d, "LN", NoAttrs, "")
      d2 == createElement(d1, "Private", NoAttrs, "")
      d3 == setAttribute(d2, openScdTag, "type", "OpenSCD.create")
      d4 == d3
  IN
  Let(setAttribute(d4, newLN, "lnClass", supervisionType), LAMBDA d5 :
  Let(closest(d5, First(getSupervisionCbRefs(d5, subscriberIED, Tag(d5, controlBlock))),
              {"LN"}), LAMBDA instantiatedSiblings :
  Let(setAttribute(d5, newLN, "lnType",
                   Coalesce(getAttribute(d5, instantiatedSiblings, "lnType"), "")),
      LAMBDA d6 :
  Let(minAvailableLogicalNodeInstance(d6,
        querySelectorAll(d6, subscriberIED,
                         LAMBDA n : IsSupervisionLN(d6, n, supervisionType))),
      LAMBDA instNumber :
    IF instantiatedSiblings = 0 THEN [d |-> d5, ln |-> 0]
    ELSE IF Falsy(instNumber) THEN [d |-> d6, ln |-> 0]
    ELSE [d |-> setAttribute(d6, newLN, "inst", instNumber), ln |-> newLN]))))

createNewSupervisionLnInst(d, controlBlock, subscriberIED, supervisionType) ==
  LET newLN == Len(d) + 1
      openScdTag == Len(d) + 2
      d1 == createElement(d, "LN", NoAttrs, "")
      d2 == createElement(d1, "Private", NoAttrs, "")
      d3 == setAttribute(d2, openScdTag, "type", "OpenSCD.create")
      d4 == appendChild(d3, newLN, openScdTag)
  IN
  Let(setAttribute(d4, newLN, "lnClass", supervisionType), LAMBDA d5 :
  Let(closest(d5, First(getSupervisionCbRefs(d5, subscriberIED, Tag(d5, controlBlock))),
              {"LN"}), LAMBDA instantiatedSiblings :
  Let(setAttribute(d5, newLN, "lnType",
                   Coalesce(getAttribute(d5, instantiatedSiblings, "lnType"), "")),
      LAMBDA d6 :
  Let(minAvailableLogicalNodeInstance(d6,
        querySelectorAll(d6, subscriberIED,
                         LAMBDA n : IsSupervisionLN(d6, n, supervisionType))),
      LAMBDA instNumber :
    IF instantiatedSiblings = 0 THEN [d |-> d5, ln |-> 0]
    ELSE IF Falsy(instNumber) THEN [d |-> d6, ln |-> 0]
    ELSE [d |-> setAttribute(d6, newLN, "inst", instNumber), ln |-> newLN]))))

\* an LN whose supervision value is absent or empty
IsAvailableLN(d, ln, supervisionType) ==
  LET supervisionName == SupervisionName(supervisionType)
      val == querySelector(d, ln, LAMBDA n : IsSetSrcRefVal(d, n, supervisionName))
  IN val = 0 \/ textContent(d, val) = ""

\* findOrCreateAvailableLNInst that makes a new LN whatever there is
findOrCreateAvailableLNInst_AlwaysNew(d, controlBlock, subscriberIED, supervisionType) ==
  createNewSupervisionLnInst(d, controlBlock, subscriberIED, supervisionType)

findOrCreateAvailableLNInst(d, controlBlock, subscriberIED, supervisionType) ==
  LET availableLN ==
        First(SelectSeq(
          querySelectorAll(d, subscriberIED,
                           LAMBDA n : IsSupervisionLN(d, n, supervisionType)),
          LAMBDA ln : IsAvailableLN(d, ln, supervisionType)))
  IN IF availableLN # 0 THEN [d |-> d, ln |-> availableLN]
     ELSE createNewSupervisionLnInst(d, controlBlock, subscriberIED, supervisionType)

\* the attributes of a new DAI: valKind and valImport as the first instance
\* of the device has them
SetSrcRefAttrs(d, srcValRef) ==
  LET a1 == [name |-> "setSrcRef"] IN
  Let(IF hasAttribute(d, srcValRef, "valKind")
        THEN [x \in {"name", "valKind"} |->
                IF x = "name" THEN a1.name ELSE getAttribute(d, srcValRef, "valKind")]
        ELSE a1,
      LAMBDA a2 :
        IF hasAttribute(d, srcValRef, "valImport")
          THEN [x \in (DOMAIN a2) \cup {"valImport"} |->
                  IF x = "valImport" THEN getAttribute(d, srcValRef, "valImport")
                  ELSE a2[x]]
          ELSE a2)

\* the edits of instantiateSubscriptionSupervision once its guards passed
SupervisionEdits(d, controlBlock, subscriberIED, supervisionType, availableLN) ==
  LET supervisionName == SupervisionName(supervisionType)
      \* the supervision LN itself, when it is a new one
      parent == parentElement(d, querySelector(d, subscriberIED,
                  LAMBDA n : IsSupervisionLN(d, n, supervisionType)))
      lastChildLN == querySelector(d, parent, LAMBDA n :
                       IsSupervisionLN(d, n, supervisionType)
                         /\ nextElementSibling(d, n) = 0)
      e1 == IF parentElement(d, availableLN) = 0 /\ parent # 0
              THEN <<Insert(parent, availableLN, nextElementSibling(d, lastChildLN))>>
              ELSE <<>>
  IN
  \* the DOI
  Let(querySelector(d, availableLN,
                    LAMBDA n : Is(d, n, "DOI", "name", supervisionName)), LAMBDA oldDoi :
  Let(IF oldDoi = 0 THEN createElement(d, "DOI", [name |-> supervisionName], "") ELSE d,
      LAMBDA d1 :
  Let(IF oldDoi = 0 THEN Len(d1) ELSE oldDoi, LAMBDA doiElement :
  Let(IF oldDoi = 0 THEN <<Insert(availableLN, doiElement, 0)>> ELSE <<>>, LAMBDA e2 :
  \* the DAI, taking valKind and valImport from the first instance
  Let(querySelector(d1, availableLN,
                    LAMBDA n : IsSetSrcRef(d1, n, supervisionName)), LAMBDA oldDai :
  Let(querySelector(d1, subscriberIED, LAMBDA n :
        /\ IsSetSrcRef(d1, n, supervisionName)
        /\ IsSupervisionLN(d1, parentElement(d1, parentElement(d1, n)),
                           supervisionType)), LAMBDA srcValRef :
  Let(IF oldDai = 0
        THEN createElement(d1, "DAI", SetSrcRefAttrs(d1, srcValRef), "") ELSE d1,
      LAMBDA d2 :
  Let(IF oldDai = 0 THEN Len(d2) ELSE oldDai, LAMBDA daiElement :
  Let(IF oldDai = 0 THEN <<Insert(doiElement, daiElement, 0)>> ELSE <<>>, LAMBDA e3 :
  \* the Val: the first Val of the LN goes, a new one is made
  Let(querySelector(d2, availableLN, LAMBDA n : Tag(d2, n) = "Val"), LAMBDA oldVal :
  Let(createElement(d2, "Val", NoAttrs,
                    Coalesce(controlBlockReference(d2, controlBlock), "")), LAMBDA d3 :
    [d |-> d3,
     edits |-> e1 \o e2 \o e3 \o (IF oldVal # 0 THEN <<Remove(oldVal)>> ELSE <<>>)
                 \o <<Insert(daiElement, Len(d3), 0)>>])))))))))))

\* instantiateSubscriptionSupervision that does not ask whether the value
\* may be modified
instantiateSubscriptionSupervision_AnyModification(d, controlBlock, subscriberIED, existingSupervision) ==
  LET supervisionType == SupervisionType(Tag(d, controlBlock)) IN
  IF \/ controlBlock = 0 \/ subscriberIED = 0
     \/ ~isSupervisionAllowed(d, controlBlock, subscriberIED, supervisionType)
    THEN [d |-> d, edits |-> <<>>]
  ELSE
    Let(IF existingSupervision # 0
          THEN [d |-> d, ln |-> existingSupervision]
          ELSE findOrCreateAvailableLNInst(d, controlBlock, subscriberIED,
                                           supervisionType),
        LAMBDA found :
          IF found.ln = 0
            THEN [d |-> found.d, edits |-> <<>>]
            ELSE SupervisionEdits(found.d, controlBlock, subscriberIED,
                                  supervisionType, found.ln))

\* existingSupervision = 0 stands for the argument left undefined
instantiateSubscriptionSupervision(d, controlBlock, subscriberIED, existingSupervision) ==
  LET supervisionType == SupervisionType(Tag(d, controlBlock)) IN
  IF \/ controlBlock = 0 \/ subscriberIED = 0
     \/ ~isSupervisionAllowed(d, controlBlock, subscriberIED, supervisionType)
    THEN [d |-> d, edits |-> <<>>]
  ELSE
    Let(IF existingSupervision # 0
          THEN [d |-> d, ln |-> existingSupervision]
          ELSE findOrCreateAvailableLNInst(d, controlBlock, subscriberIED,
                                           supervisionType),
        LAMBDA found :
          IF \/ found.ln = 0
             \/ ~isSupervisionModificationAllowed(found.d, subscriberIED,
                                                  supervisionType)
            THEN [d |-> found.d, edits |-> <<>>]
            ELSE SupervisionEdits(found.d, controlBlock, subscriberIED,
                                  supervisionType, found.ln))

----------------------------------------------------------------------------
(* The documents the supervision operations start from: a subscriber S     *)
(* with its supervision instances, the publishers P1 and P11 and the data  *)
(* type templates.                                                         *)

T(tag, attrs, kids) == [tag |-> tag, attrs |-> attrs, text |-> "", kids |-> kids]

ValT(text) == [tag |-> "Val", attrs |-> NoAttrs, text |-> text, kids |-> <<>>]

\* the reference of control block g<k> of P1, logical device 11; that of g1
\* is also the reference of g1 of P11, logical device 1
RefOf(k) == "P111/LLN0.g" \o ToString(k)

SlotKinds == {"bare", "empty", "user", "oscd"}

ModifKinds == {"inst", "tmpl", "none"}

\* the setSrcRef DAI of an instance
DaiT(modif, text) ==
  T("DAI",
    IF modif = "inst"
      THEN [name |-> "setSrcRef", valKind |-> "RO", valImport |-> "true"]
      ELSE [name |-> "setSrcRef"],
    <<ValT(text)>>)

BehT == T("DOI", [name |-> "Beh"], <<T("DAI", [name |-> "stVal"], <<ValT("on")>>)>>)

\* a supervision LN: class, instance number, kind of slot, reference held
SlotT(lnClass, i, kind, ref, modif, otherDoi) ==
  T("LN", [lnClass |-> lnClass, inst |-> ToString(i), lnType |-> "t" \o lnClass],
    (IF kind = "oscd" THEN <<T("Private", [type |-> "OpenSCD.create"], <<>>)>> ELSE <<>>)
    \o (IF otherDoi THEN <<BehT>> ELSE <<>>)
    \o (IF kind = "bare" THEN <<>>
        ELSE <<T("DOI", [name |-> SupervisionName(lnClass)],
                 <<DaiT(modif, IF kind = "empty" THEN "" ELSE ref)>>)>>))

ControlT(tag, name) == T(tag, [name |-> name], <<>>)

PublisherT(name, ldInst, controls) ==
  T("IED", [name |-> name],
    <<T("LDevice", [inst |-> ldInst], <<T("LN0", [lnClass |-> "LLN0"], controls)>>)>>)

TemplatesT(modif) ==
  LET da == IF modif = "tmpl"
              THEN [name |-> "setSrcRef", valKind |-> "Conf", valImport |-> "true"]
              ELSE [name |-> "setSrcRef"]
  IN T("DataTypeTemplates", NoAttrs,
       <<T("LNodeType", [id |-> "tLGOS", lnClass |-> "LGOS"],
           <<T("DO", [name |-> "GoCBRef", type |-> "tRef"], <<>>)>>),
         T("LNodeType", [id |-> "tLSVS", lnClass |-> "LSVS"],
           <<T("DO", [name |-> "SvCBRef", type |-> "tRef"], <<>>)>>),
         T("DOType", [id |-> "tRef"], <<T("DA", da, <<>>)>>)>>)

SclAttrs(edition) ==
  IF edition = "2003" THEN NoAttrs
  ELSE [version |-> "2007", revision |-> "B", release |-> "4"]

OtherTag(cbTag) ==
  IF cbTag = "GSEControl" THEN "SampledValueControl" ELSE "GSEControl"

\* every attribute in names with the value v, none when v is Null
Attrs(names, v) == IF v = Null THEN NoAttrs ELSE [a \in names |-> v]

\* attrs with the attribute a set to v, left out when v is Null
With(attrs, a, v) ==
  IF v = Null THEN attrs ELSE [x \in (DOMAIN attrs) \cup {a} |-> IF x = a THEN v ELSE attrs[x]]

\* no SupSubscription element at all
NoSupSubscription == "<none>"

\* What a device declares as its capacity: a numeral, a text that is no
\* number, a numeral followed by a letter, no attribute (Null), no
\* SupSubscription element.
Capacities ==
  {ToString(i) : i \in 0..MaxCap} \cup {"x", "", "1x", Null, NoSupSubscription}

\* The subscriber: its capacity for the message type of the document, its
\* supervision LNs of that type, and one LN of the other supervision class
\* that holds a reference.
SubscriberT(p, cap, slots) ==
  T("IED", [name |-> "S"],
    <<T("Services", NoAttrs,
        IF cap = NoSupSubscription THEN <<>>
        ELSE <<T("SupSubscription",
                 With([a \in {IF p.cbTag = "GSEControl" THEN "maxSv" ELSE "maxGo"} |-> "1"],
                      IF p.cbTag = "GSEControl" THEN "maxGo" ELSE "maxSv", cap),
                 <<>>)>>),
      T("LDevice", [inst |-> "LD0"],
        <<T("LN0", [lnClass |-> "LLN0"], <<>>)>>
        \o [i \in 1..Len(slots) |->
              SlotT(SupervisionType(p.cbTag), i, slots[i], RefOf(i), p.modif, p.otherDoi)]
        \o <<SlotT(SupervisionType(OtherTag(p.cbTag)), 1, "user", "X1/LLN0.x",
                   p.modif, p.otherDoi)>>)>>)

SupervisionDoc(p, cap, slots) ==
  AddTree(<<>>,
    T("SCL", SclAttrs(p.edition),
      <<SubscriberT(p, cap, slots),
        PublisherT("P1", "11", <<ControlT(p.cbTag, "g1"), ControlT(p.cbTag, "g2")>>),
        PublisherT("P11", "1", <<ControlT(p.cbTag, "g1")>>),
        TemplatesT(p.modif)>>))

Profile(edition, modif, otherDoi, cbTag) ==
  [edition |-> edition, modif |-> modif, otherDoi |-> otherDoi, cbTag |-> cbTag]

\* edition, where setSrcRef is declared modifiable, a Beh DOI in the LNs,
\* the message type
Profiles ==
  {Profile("2007B4", "inst", FALSE, "GSEControl"),
   Profile("2007B4", "tmpl", TRUE, "SampledValueControl"),
   Profile("2007B4", "none", FALSE, "GSEControl"),
   Profile("2003", "inst", FALSE, "GSEControl")}

SeqsUpTo(S, n) == UNION {[1..k -> S] : k \in 0..n}

----------------------------------------------------------------------------
(* State: the document, the last supervision call, the replacement run.    *)

NoCall == [op |-> "none", cb |-> 0, ied |-> 0, existing |-> 0, edits |-> <<>>,
           occupied0 |-> 0]

Idle == [pc |-> "idle"]

Init ==
  /\ \E profile \in Profiles, cap \in Capacities, slots \in SeqsUpTo(SlotKinds, MaxSlots) :
       doc = SupervisionDoc(profile, cap, slots)
  /\ last = NoCall
  /\ run = Idle
  /\ dispatched = <<>>

\* the elements of the document with one of the tags
Elements(d, tags) == {n \in 1..Len(d) : d[n].tag \in tags}

ControlBlocks(d) == Elements(d, {"GSEControl", "SampledValueControl"})

\* the LNs of an IED that can be handed over as existingSupervision
SupervisionLNs(d, ied, cb) ==
  {n \in Range(Descendants(d, ied)) : IsSupervisionLN(d, n, SupervisionType(Tag(d, cb)))}

\* an edit with its nodes renamed to their ids in the normalized document
RemapEdit(P, e) ==
  [op |-> e.op, node |-> IndexOf(P, e.node), parent |-> IndexOf(P, e.parent),
   reference |-> IndexOf(P, e.reference)]

\* What is known of the last call: its arguments and its batch, the nodes
\* named as in the document after the call (0: not in the document), and
\* the number of occupied slots before it.  Of a call that returned no
\* edit only that it was made.
Called(op, d2, edits, cb, ied, existing) ==
  IF edits = <<>> THEN [NoCall EXCEPT !.op = op]
  ELSE LET P == Pre(d2, 1) IN
       [op |-> op, cb |-> IndexOf(P, cb), ied |-> IndexOf(P, ied),
        existing |-> IndexOf(P, existing),
        edits |-> [i \in DOMAIN edits |-> RemapEdit(P, edits[i])],
        occupied0 |-> instantiatedSupervisionsCount(doc, ied, cb)]

\* a call returned the batch r.edits (r.d: the store with the elements the
\* call created); the host applies the batch
Returned(op, r, cb, ied, existing) ==
  /\ doc' = IF r.edits = <<>> THEN doc ELSE Normalize(handleEdits(r.d, r.edits))
  /\ last' = Called(op, handleEdits(r.d, r.edits), r.edits, cb, ied, existing)
  /\ UNCHANGED <<run, dispatched>>

\* instantiateSubscriptionSupervision is called, its batch is applied
Instantiate(cb, ied, existing) ==
  Returned("instantiate",
           instantiateSubscriptionSupervision(doc, cb, ied, existing), cb, ied, existing)

\* removeSubscriptionSupervision is called, its batch is applied
RemoveSupervision(cb, ied) ==
  Returned("remove",
           [d |-> doc, edits |-> removeSubscriptionSupervision(doc, cb, ied)], cb, ied, 0)

\* the devices the operations are called for as subscriber: S, and P11 as
\* a device without supervision
SubscriberIEDs(d) ==
  {n \in Elements(d, {"IED"}) : getAttribute(d, n, "name") \in {"S", "P11"}}

Next ==
  \/ \E cb \in ControlBlocks(doc), ied \in SubscriberIEDs(doc) :
       \E existing \in {0} \cup SupervisionLNs(doc, ied, cb) : Instantiate(cb, ied, existing)
  \/ \E cb \in ControlBlocks(doc), ied \in SubscriberIEDs(doc) :
       RemoveSupervision(cb, ied)

Spec == Init /\ [][Next]_vars

----------------------------------------------------------------------------
(* Properties of the supervision allocator and remover.                    *)

CbTags == {"GSEControl", "SampledValueControl"}

IedNames(d) == {getAttribute(d, n, "name") : n \in Elements(d, {"IED"})}

IedNamed(d, name) == CHOOSE n \in Elements(d, {"IED"}) : getAttribute(d, n, "name") = name

\* the supervision values of a device for a message type that hold a text
OccupiedVals(d, ied, cbTag) ==
  SelectSeq(getSupervisionCbRefs(d, ied, cbTag), LAMBDA val : textContent(d, val) # "")

Occupied(d, ied, cbTag) == Len(OccupiedVals(d, ied, cbTag))

WithinCapacity(d, ied, cbTag) == Occupied(d, ied, cbTag) <= maxSupervisions(d, ied, cbTag)

\* C1: in a document of an edition after 2003, a device that holds no more
\* occupied supervision values of a message type than its capacity allows
\* still does so after any instantiate or remove batch has been applied.
C1_CapacityKept ==
  [][doc' = doc \/ \A name \in IedNames(doc), cbTag \in CbTags :
       (/\ getSclSchemaVersion(doc) # "2003"
        /\ WithinCapacity(doc, IedNamed(doc, name), cbTag))
         => WithinCapacity(doc', IedNamed(doc', name), cbTag)]_vars

\* an instantiate batch has filled the last free slot of the subscriber
C1_Witness ==
  /\ last.op = "instantiate" /\ last.edits # <<>>
  /\ maxSupervisions(doc, last.ied, Tag(doc, last.cb)) >= 2
  /\ Occupied(doc, last.ied, Tag(doc, last.cb))
       = maxSupervisions(doc, last.ied, Tag(doc, last.cb))
  /\ last.occupied0 < Occupied(doc, last.ied, Tag(doc, last.cb))

NoDuplicate(d, ied, cbTag) ==
  LET vals == OccupiedVals(d, ied, cbTag) IN
  \A i, j \in DOMAIN vals : textContent(d, vals[i]) = textContent(d, vals[j]) => i = j

\* C2: a device on which no two supervision values of a class hold the same
\* non-empty reference is still such a device after any instantiate or
\* remove batch has been applied.
C2_UniquenessKept ==
  [][doc' = doc \/ \A name \in IedNames(doc), cbTag \in CbTags :
       NoDuplicate(doc, IedNamed(doc, name), cbTag)
         => NoDuplicate(doc', IedNamed(doc', name), cbTag)]_vars

\* an instantiate batch has added a second, different reference
C2_Witness ==
  /\ last.op = "instantiate" /\ last.edits # <<>>
  /\ Occupied(doc, last.ied, Tag(doc, last.cb)) >= 2
  /\ last.occupied0 < Occupied(doc, last.ied, Tag(doc, last.cb))
  /\ NoDuplicate(doc, last.ied, Tag(doc, last.cb))

\* C3: once a non-empty instantiate batch for a control block and a device
\* has been applied, supervision of that control block on that device is
\* not allowed and a second instantiate returns no edit.
C3_NoDuplicateSupervision ==
  (last.op = "instantiate" /\ last.edits # <<>>)
    => /\ ~isSupervisionAllowed(doc, last.cb, last.ied,
                                SupervisionType(Tag(doc, last.cb)))
       /\ instantiateSubscriptionSupervision(doc, last.cb, last.ied, 0).edits = <<>>

\* the two-argument instantiate has been applied and capacity is left, so
\* that only the record just made forbids a second one
C3_Witness ==
  /\ last.op = "instantiate" /\ last.edits # <<>> /\ last.existing = 0
  /\ Occupied(doc, last.ied, Tag(doc, last.cb))
       < maxSupervisions(doc, last.ied, Tag(doc, last.cb))

AtCapacity(d, ied, cbTag) == Occupied(d, ied, cbTag) = maxSupervisions(d, ied, cbTag)

ControlBlocksOf(d, cbTag) == Elements(d, {cbTag})

Supervised(d, cb, ied) ==
  \E i \in DOMAIN getSupervisionCbRefs(d, ied, Tag(d, cb)) :
    TextIsReference(d, getSupervisionCbRefs(d, ied, Tag(d, cb))[i], cb)

HasSupervisionLN(d, ied, cbTag) ==
  \E n \in Range(Descendants(d, ied)) : IsSupervisionLN(d, n, SupervisionType(cbTag))

\* a device at capacity allows no further supervision of the message type
FullAllowsNone(d, ied, cbTag) ==
  AtCapacity(d, ied, cbTag)
    => \A cb \in ControlBlocksOf(d, cbTag) :
         ~isSupervisionAllowed(d, cb, ied, SupervisionType(cbTag))

\* the last call was a remove that took a device at capacity N to N - 1
\* occupied values and left it a supervision LN of the class
ClearedOneOfFull ==
  /\ last.op = "remove" /\ last.edits # <<>>
  /\ last.occupied0 = maxSupervisions(doc, last.ied, Tag(doc, last.cb))
  /\ Occupied(doc, last.ied, Tag(doc, last.cb)) = last.occupied0 - 1
  /\ HasSupervisionLN(doc, last.ied, Tag(doc, last.cb))

\* every control block of the type that is not supervised yet is allowed
AllowsTheUnsupervised(d, ied, cbTag) ==
  \A cb \in ControlBlocksOf(d, cbTag) :
    ~Supervised(d, cb, ied) => isSupervisionAllowed(d, cb, ied, SupervisionType(cbTag))

\* C4 as stated: at capacity no control block of the type is allowed, and
\* after a remove batch has cleared one of the N occupied values every
\* control block of the type not supervised on the device is allowed.
C4_AsStated ==
  /\ \A ied \in Elements(doc, {"IED"}), cbTag \in CbTags : FullAllowsNone(doc, ied, cbTag)
  /\ ClearedOneOfFull => AllowsTheUnsupervised(doc, last.ied, Tag(doc, last.cb))

\* C4 amended: the second half holds in documents of an edition after 2003.
C4_CapacityMonotonicity ==
  /\ \A ied \in Elements(doc, {"IED"}), cbTag \in CbTags : FullAllowsNone(doc, ied, cbTag)
  /\ (ClearedOneOfFull /\ getSclSchemaVersion(doc) # "2003")
       => AllowsTheUnsupervised(doc, last.ied, Tag(doc, last.cb))

\* one value of a full device was cleared and a control block is allowed
C4_Witness ==
  /\ ClearedOneOfFull /\ getSclSchemaVersion(doc) # "2003"
  /\ last.occupied0 >= 2
  /\ \E cb \in ControlBlocksOf(doc, Tag(doc, last.cb)) :
       isSupervisionAllowed(doc, cb, last.ied, SupervisionType(Tag(doc, last.cb)))

\* the supervision value of a device that holds the reference of cb
RecordOf(d, cb, ied) ==
  First(SelectSeq(getSupervisionCbRefs(d, ied, Tag(d, cb)),
                  LAMBDA val : TextIsReference(d, val, cb)))

OwningLN(d, val) == closest(d, val, {"LN0", "LN"})

HasMarker(d, ln) == \E n \in Range(Descendants(d, ln)) : IsOpenScdCreate(d, n)

\* the LN is what it was in d, less its child doi
LNKeptWithout(d, d2, ln, doi) ==
  /\ parentElement(d2, ln) = parentElement(d, ln) /\ parentElement(d2, ln) # 0
  /\ d2[parentElement(d2, ln)].kids = d[parentElement(d, ln)].kids
  /\ d2[ln].attrs = d[ln].attrs
  /\ d2[ln].kids = Without(d[ln].kids, doi)
  /\ ToTrees(d2, d2[ln].kids) = ToTrees(d, Without(d[ln].kids, doi))

RemoveIsShapePreserving(d, cb, ied) ==
  LET val == RecordOf(d, cb, ied)
      ln == OwningLN(d, val)
      doi == parentElement(d, parentElement(d, val))
      batch == removeSubscriptionSupervision(d, cb, ied)
      d2 == handleEdits(d, batch)
  IN val # 0 =>
       /\ Len(batch) = 1 /\ batch[1].op = "Remove"
       /\ IF HasMarker(d, ln) THEN batch[1].node = ln
          ELSE /\ batch[1].node = doi /\ Tag(d, doi) = "DOI"
               /\ LNKeptWithout(d, d2, ln, doi)

\* C5: when removeSubscriptionSupervision finds the record of the control
\* block, its batch is one Remove: of the whole LN when the LN carries the
\* OpenSCD.create marker, else of the DOI that holds the value, and then
\* the LN stays where it is with its attributes and its other children.
C5_RemoveIsShapePreserving ==
  \A cb \in ControlBlocks(doc), ied \in Elements(doc, {"IED"}) :
    RemoveIsShapePreserving(doc, cb, ied)

\* a remove batch took the DOI of a user-authored LN that has other children
C5_Witness ==
  /\ last.op = "remove" /\ Len(last.edits) = 1 /\ last.edits[1].node = 0
  /\ \E ln \in Range(Descendants(doc, last.ied)) :
       /\ IsSupervisionLN(doc, ln, SupervisionType(Tag(doc, last.cb)))
       /\ ~HasMarker(doc, ln)
       /\ doc[ln].kids # <<>>
       /\ \A k \in Range(doc[ln].kids) :
            ~Is(doc, k, "DOI", "name", SupervisionName(SupervisionType(Tag(doc, last.cb))))

\* the components the reference string is made of
Components(d, cb) ==
  LET anyLn == closest(d, cb, {"LN", "LN0"}) IN
  [cbName |-> getAttribute(d, cb, "name"),
   iedName |-> getAttribute(d, closest(d, cb, {"IED"}), "name"),
   ldInst |-> getAttribute(d, closest(d, cb, {"LDevice"}), "inst"),
   prefix |-> getAttribute(d, anyLn, "prefix"),
   lnClass |-> getAttribute(d, anyLn, "lnClass"),
   lnInst |-> getAttribute(d, anyLn, "inst")]

\* the components with those joined that the reference string does not
\* separate
JoinedComponents(d, cb) ==
  LET c == Components(d, cb) IN
  <<Str(c.iedName) \o Str(c.ldInst),
    Coalesce(c.prefix, "") \o Str(c.lnClass) \o Coalesce(c.lnInst, ""),
    Str(c.cbName)>>

\* the value the last instantiate batch inserted
InsertedVal == last.edits[Len(last.edits)].node

\* remove for cb and ied finds the value val as the record of cb and
\* returns the batch that takes it out of the document
RemoveTargets(d, cb, ied, val) ==
  LET batch == removeSubscriptionSupervision(d, cb, ied) IN
  /\ RecordOf(d, cb, ied) = val
  /\ batch # <<>> /\ val \in Range(Pre(d, batch[1].node))

Instantiated == last.op = "instantiate" /\ last.edits # <<>>

\* C6 as stated: the record an instantiate batch made for C on D is what
\* remove finds for C, and remove for another control block of the kind
\* that differs in a component does not find it.
C6_AsStated ==
  Instantiated =>
    /\ RemoveTargets(doc, last.cb, last.ied, InsertedVal)
    /\ \A other \in ControlBlocksOf(doc, Tag(doc, last.cb)) :
         Components(doc, other) # Components(doc, last.cb)
           => ~RemoveTargets(doc, other, last.ied, InsertedVal)

\* C6 amended: remove for another control block does not find the record
\* when the two differ in the name of the control block, in device name
\* joined with logical device instance, or in prefix, class and instance of
\* the logical node joined.
C6_RoundTripReference ==
  Instantiated =>
    /\ RemoveTargets(doc, last.cb, last.ied, InsertedVal)
    /\ \A other \in ControlBlocksOf(doc, Tag(doc, last.cb)) :
         JoinedComponents(doc, other) # JoinedComponents(doc, last.cb)
           => ~RemoveTargets(doc, other, last.ied, InsertedVal)

\* a record was made while a control block with other components exists
C6_Witness ==
  /\ Instantiated
  /\ \E other \in ControlBlocksOf(doc, Tag(doc, last.cb)) :
       /\ JoinedComponents(doc, other) # JoinedComponents(doc, last.cb)
       /\ Supervised(doc, other, last.ied)

----------------------------------------------------------------------------
(* Identities and selectors of the foundation.                             *)

RECURSIVE identity(_, _)
\* the identity string of an IED, an LDevice, an LN0 or an LN
identity(d, n) ==
  IF n = 0 THEN "NaN"
  ELSE IF d[n].tag = "IED" THEN Str(getAttribute(d, n, "name"))
  ELSE IF d[n].tag = "LDevice"
    THEN identity(d, closest(d, n, {"IED"})) \o ">>" \o Str(getAttribute(d, n, "inst"))
  ELSE IF d[n].tag \in {"LN", "LN0"}
    THEN identity(d, parentElement(d, n)) \o ">"
           \o Coalesce(getAttribute(d, n, "prefix"), "") \o " "
           \o Str(getAttribute(d, n, "lnClass")) \o " "
           \o Coalesce(getAttribute(d, n, "inst"), "")
  ELSE "NaN"

\* element n matches selector(tagName, id)
selector(d, n, tagName, id) == Tag(d, n) = tagName /\ identity(d, n) = id

----------------------------------------------------------------------------
(* The plugin: the template chosen in the filter button, the devices       *)
(* checked in the list, and replaceIeds.                                   *)

\* the device names of the model in the order compareNames sorts them
NameOrder == <<"IED1", "IED2", "TPL">>

RECURSIVE SortedByName(_, _, _)
\* the elements sorted by name: those of the i-th name and later ones
SortedByName(d, elements, i) ==
  IF i > Len(NameOrder) THEN <<>>
  ELSE SelectSeq(elements, LAMBDA e : getAttribute(d, e, "name") = NameOrder[i])
         \o SortedByName(d, elements, i + 1)

\* :root > IED, sorted by name
iedList(d) ==
  SortedByName(d, SelectSeq(d[1].kids, LAMBDA n : d[n].tag = "IED"), 1)

\* selectedIed that falls back to the first device of the list
selectedIed_FirstOfList(d, selectedIEDs) ==
  IF Len(selectedIEDs) >= 1
    THEN First(SelectSeq(iedList(d),
                         LAMBDA e : selectedIEDs[1] = getAttribute(d, e, "name")))
    ELSE First(iedList(d))

\* the template: the device of the list named selectedIEDs[0], 0 when
\* undefined
selectedIed(d, selectedIEDs) ==
  IF Len(selectedIEDs) >= 1
    THEN First(SelectSeq(iedList(d),
                         LAMBDA e : selectedIEDs[1] = getAttribute(d, e, "name")))
    ELSE 0

\* the items of a list that offers every IED, the template too
Candidates_All(d, selectedIEDs) ==
  LET ieds == SelectSeq(Pre(d, 1), LAMBDA n : d[n].tag = "IED")
  IN [i \in DOMAIN ieds |-> identity(d, ieds[i])]

\* the data-id of the items render puts in the list: every IED but those
\* named as the template
Candidates(d, selectedIEDs) ==
  LET templateName == getAttribute(d, selectedIed(d, selectedIEDs), "name")
      ieds == SelectSeq(Pre(d, 1), LAMBDA n :
                d[n].tag = "IED" /\ getAttribute(d, n, "name") # templateName)
  IN [i \in DOMAIN ieds |-> identity(d, ieds[i])]

\* replaceIedsUI?.selected: undefined without the list, null or one item
\* of a single-selection list, the checked items in list order otherwise
Raw(kind, items) == [kind |-> kind, items |-> items]

RECURSIVE SubSeqs(_)
\* the subsequences of a sequence
SubSeqs(s) ==
  IF s = <<>> THEN {<<>>}
  ELSE LET rest == SubSeqs(Tail(s)) IN rest \cup {<<Head(s)>> \o r : r \in rest}

Selections(d, selectedIEDs) ==
  LET ids == Candidates(d, selectedIEDs) IN
  {Raw("undefined", <<>>), Raw("null", <<>>)}
    \cup {Raw("item", <<ids[i]>>) : i \in DOMAIN ids}
    \cup {Raw("array", s) : s \in SubSeqs(ids)}

\* Array.isArray(selected) ? selected : [selected], as the ids of the items
SelectedIds(raw) == raw.items

\* the guard of replaceIeds
ReturnsEarly(d, raw, selectedIEDs) ==
  raw.kind \in {"undefined", "null"} \/ selectedIed(d, selectedIEDs) = 0

\* Map<string, [storedInput]>
NoSections == [name \in {} |-> <<>>]

\* a map that keeps every record under the key it was given first
Push_OneKey(m, name, x) ==
  IF DOMAIN m = {} THEN [k \in {name} |-> <<x>>]
  ELSE [k \in DOMAIN m |-> Append(m[k], x)]

\* has(name) ? get(name).push(x) : set(name, [x])
Push(m, name, x) ==
  [k \in (DOMAIN m) \cup {name} |->
     IF k # name THEN m[k]
     ELSE IF name \in DOMAIN m THEN Append(m[name], x) ELSE <<x>>]

RECURSIVE StoreSections(_, _, _)
\* each element is imported and stored with the identity of its parent
StoreSections(r, elements, name) ==
  IF elements = <<>> THEN r
  ELSE StoreSections(
         [d |-> cloneNode(r.d, Head(elements)),
          m |-> Push(r.m, name,
                     [id |-> Str(identity(r.d, parentElement(r.d, Head(elements)))),
                      input |-> Len(r.d) + 1])],
         Tail(elements), name)

\* :scope LN > Inputs, :scope LN0 > Inputs
IsInputsOfLN(d, n) ==
  Tag(d, n) = "Inputs" /\ Tag(d, parentElement(d, n)) \in {"LN", "LN0"}

\* :scope LN0 > GSEControl
IsGseOfLN0(d, n) ==
  Tag(d, n) = "GSEControl" /\ Tag(d, parentElement(d, n)) = "LN0"

RECURSIVE CaptureSections(_, _)
\* the first pass over the selected items; threw: a TypeError ended it
CaptureSections(c, ids) ==
  IF ids = <<>> \/ c.threw THEN c
  ELSE
    Let(docQuerySelector(c.d, LAMBDA n : selector(c.d, n, "IED", Head(ids))),
        LAMBDA currentIed :
    IF currentIed = 0 THEN [c EXCEPT !.threw = TRUE]
    ELSE
      Let(Str(getAttribute(c.d, currentIed, "name")), LAMBDA currentIedName :
      Let(StoreSections([d |-> c.d, m |-> c.inputsSections],
                        querySelectorAll(c.d, currentIed,
                                         LAMBDA n : IsInputsOfLN(c.d, n)),
                        currentIedName), LAMBDA r1 :
      Let(StoreSections([d |-> r1.d, m |-> c.gseControlSections],
                        querySelectorAll(c.d, currentIed,
                                         LAMBDA n : IsGseOfLN0(c.d, n)),
                        currentIedName), LAMBDA r2 :
        CaptureSections([d |-> r2.d, inputsSections |-> r1.m,
                         gseControlSections |-> r2.m, threw |-> FALSE],
                        Tail(ids))))))

\* the swap batch that names the clone as the template is named
SwapEdits_TemplateName(d, currentIed, template) ==
  LET newIed == Len(d) + 1 IN
  [d |-> setAttribute(cloneNode(d, template), newIed, "name",
                      Coalesce(getAttribute(d, template, "name"), "Unknown")),
   newIed |-> newIed,
   edits |-> <<Remove(currentIed),
               Insert(1, newIed, previousElementSibling(d, currentIed))>>]

\* the swap batch: the clone of the template under the name of the device,
\* the device removed, the clone inserted with the previous sibling of the
\* device as reference
SwapEdits(d, currentIed, template) ==
  LET newIed == Len(d) + 1 IN
  [d |-> setAttribute(cloneNode(d, template), newIed, "name",
                      Str(getAttribute(d, currentIed, "name"))),
   newIed |-> newIed,
   edits |-> <<Remove(currentIed),
               Insert(1, newIed, previousElementSibling(d, currentIed))>>]

\* a batch under construction ended by a TypeError
Thrown == [edits |-> <<>>, threw |-> TRUE]

RECURSIVE InputEdits(_, _)
\* the forEach over the captured Inputs sections of the device
InputEdits(d, transfers) ==
  IF transfers = <<>> THEN [edits |-> <<>>, threw |-> FALSE]
  ELSE
    Let(Head(transfers), LAMBDA transferInput :
    Let(docQuerySelector(d, LAMBDA n : selector(d, n, "LN", transferInput.id)),
        LAMBDA ln :
    Let(IF ln # 0 THEN ln
        ELSE docQuerySelector(d, LAMBDA n : selector(d, n, "LN0", transferInput.id)),
        LAMBDA lN :
    Let(IF lN = 0 THEN 0 ELSE querySelector(d, lN, LAMBDA n : Tag(d, n) = "Inputs"),
        LAMBDA inputs :
      IF lN # 0 /\ inputs = 0 THEN Thrown
      ELSE
        Let(InputEdits(d, Tail(transfers)), LAMBDA rest :
          IF rest.threw THEN Thrown
          ELSE [edits |->
                  (IF lN = 0 THEN <<>>
                   ELSE <<Remove(inputs),
                          Insert(lN, transferInput.input,
                                 nextElementSibling(d, inputs))>>)
                  \o rest.edits,
                threw |-> FALSE])))))

\* the rewire batch of a device: the Inputs of the clone replaced by the
\* captured ones, the GSEControls of the original removed, the captured
\* GSEControls inserted at the sibling after the last of them
RewireEdits(d, currentIed, currentIedName, inputsSections, gseControlSections) ==
  IF currentIedName \notin DOMAIN inputsSections THEN Thrown
  ELSE
    Let(InputEdits(d, inputsSections[currentIedName]), LAMBDA inputActions :
    Let(querySelectorAll(d, currentIed, LAMBDA n : Tag(d, n) = "GSEControl"),
        LAMBDA gseControls :
      IF inputActions.threw THEN Thrown
      ELSE IF currentIedName \notin DOMAIN gseControlSections THEN Thrown
      ELSE IF gseControls = <<>> THEN Thrown
      ELSE
        Let(gseControls[Len(gseControls)], LAMBDA lastGse :
        Let(gseControlSections[currentIedName], LAMBDA transfers :
          [edits |->
             inputActions.edits
               \o [i \in DOMAIN gseControls |-> Remove(gseControls[i])]
               \o [i \in DOMAIN transfers |->
                     Insert(docQuerySelector(d, LAMBDA n :
                              selector(d, n, "LN0", transfers[i].id)),
                            transfers[i].input,
                            nextElementSibling(d, lastGse))],
           threw |-> FALSE]))))

----------------------------------------------------------------------------
(* The documents replaceIeds starts from: the device IED1, the template    *)
(* TPL, in the larger layout a second device IED2.                         *)

InputsT(owner) == T("Inputs", NoAttrs, <<T("ExtRef", [iedName |-> owner], <<>>)>>)

\* a device: one LDevice, its LN0 with its Inputs, GSEControls and a
\* SampledValueControl after them, and an LN with or without Inputs
DeviceT(name, s) ==
  T("IED", [name |-> name],
    <<T("LDevice", [inst |-> s.ld],
        <<T("LN0", [lnClass |-> "LLN0", inst |-> ""],
            (IF s.inputs0 THEN <<InputsT(name)>> ELSE <<>>)
            \o [i \in 1..s.gse |-> ControlT("GSEControl", name \o "g" \o ToString(i))]
            \o (IF s.after THEN <<ControlT("SampledValueControl", "s1")>> ELSE <<>>))>>
        \o (IF s.ln = "none" THEN <<>>
            ELSE <<T("LN", [lnClass |-> "GGIO", inst |-> "1"],
                     IF s.ln = "inputs" THEN <<InputsT(name)>> ELSE <<>>)>>))>>)

Shape(inputs0, ln, gse, after) ==
  [inputs0 |-> inputs0, ln |-> ln, gse |-> gse, after |-> after, ld |-> "LD0"]

\* the shapes of the device to replace
DeviceShapes ==
  {s \in {Shape(i0, ln, g, a) : i0 \in BOOLEAN, ln \in {"bare", "inputs"},
                                g \in 0..MaxGse, a \in BOOLEAN} :
     s.after => s.gse > 0}

\* the shapes of the template, also one without the LN and one whose
\* LDevice has another inst than that of the devices
TemplateShapes ==
  {[Shape(i0, ln, g, FALSE) EXCEPT !.ld = ld] :
     i0 \in BOOLEAN, ln \in {"none", "bare", "inputs"}, g \in 0..MaxGse,
     ld \in {"LD0", "LD1"}}

Layouts ==
  {<<"IED1", "TPL">>, <<"TPL", "IED1">>,
   <<"Header", "IED1", "IED2", "TPL", "DataTypeTemplates">>}

ReplaceDoc(layout, device, template) ==
  AddTree(<<>>,
    T("SCL", SclAttrs("2007B4"),
      [i \in DOMAIN layout |->
         IF layout[i] = "IED1" THEN DeviceT("IED1", device)
         ELSE IF layout[i] = "IED2" THEN DeviceT("IED2", Shape(TRUE, "bare", 1, FALSE))
         ELSE IF layout[i] = "TPL" THEN DeviceT("TPL", template)
         ELSE T(layout[i], NoAttrs, <<>>)]))

InitReplace ==
  /\ \E layout \in Layouts, device \in DeviceShapes, template \in TemplateShapes :
       doc = ReplaceDoc(layout, device, template)
  /\ last = NoCall
  /\ run = Idle
  /\ dispatched = <<>>

----------------------------------------------------------------------------
(* replaceIeds, step by step: the guard and the capture pass, then for     *)
(* each selected device the swap batch and the rewire batch.  Each batch   *)
(* is applied by the host when it is dispatched.                           *)

Running(pc, raw, selectedIEDs, k, c, currentIed) ==
  [pc |-> pc, raw |-> raw, selectedIEDs |-> selectedIEDs, k |-> k,
   inputsSections |-> c.inputsSections, gseControlSections |-> c.gseControlSections,
   currentIed |-> currentIed]

\* replaceIeds has returned, or a TypeError has ended it
Ended(pc, raw, selectedIEDs, k) ==
  [pc |-> pc, raw |-> raw, selectedIEDs |-> selectedIEDs, k |-> k,
   inputsSections |-> NoSections, gseControlSections |-> NoSections,
   currentIed |-> 0]

\* the operations of a batch
Ops(edits) == [i \in DOMAIN edits |-> edits[i].op]

\* the identities a device's sections were stored with
IdsOf(m, name) ==
  IF name \in DOMAIN m THEN [i \in DOMAIN m[name] |-> m[name][i].id] ELSE <<>>

Captured(raw, selectedIEDs, c) ==
  /\ last' = [NoCall EXCEPT !.op = "replaceIeds"]
  /\ dispatched' = dispatched
  /\ IF c.threw
       THEN doc' = doc /\ run' = Ended("threw", raw, selectedIEDs, 0)
     ELSE IF SelectedIds(raw) = <<>>
       THEN doc' = doc /\ run' = Ended("done", raw, selectedIEDs, 0)
     ELSE doc' = c.d /\ run' = Running("swap", raw, selectedIEDs, 1, c, 0)

\* Apply is clicked: the guard and the capture pass
ReplaceIeds(raw, selectedIEDs) ==
  /\ run.pc = "idle"
  /\ IF ReturnsEarly(doc, raw, selectedIEDs)
       THEN /\ run' = Ended("done", raw, selectedIEDs, 0)
            /\ last' = [NoCall EXCEPT !.op = "replaceIeds"]
            /\ UNCHANGED <<doc, dispatched>>
       ELSE Captured(raw, selectedIEDs,
                     CaptureSections([d |-> doc, inputsSections |-> NoSections,
                                      gseControlSections |-> NoSections,
                                      threw |-> FALSE],
                                     SelectedIds(raw)))

Swapped(currentIed, swap) ==
  /\ doc' = handleEdits(swap.d, swap.edits)
  /\ dispatched' = Append(dispatched, Ops(swap.edits))
  /\ run' = [run EXCEPT !.pc = "rewire", !.currentIed = currentIed]
  /\ last' = [op |-> "swap", name |-> Str(getAttribute(doc, currentIed, "name")),
              newIed |-> swap.newIed,
              parent0 |-> parentElement(doc, currentIed),
              index0 |-> IndexOf(doc[parentElement(doc, currentIed)].kids, currentIed)]

\* the swap batch of the k-th selected device is built and dispatched
SwapIed ==
  /\ run.pc = "swap"
  /\ LET currentIed == docQuerySelector(doc, LAMBDA n :
                         selector(doc, n, "IED", SelectedIds(run.raw)[run.k]))
         template == selectedIed(doc, run.selectedIEDs)
     IN IF currentIed = 0 \/ template = 0
          THEN /\ doc' = Normalize(doc)
               /\ run' = Ended("threw", run.raw, run.selectedIEDs, run.k)
               /\ last' = [NoCall EXCEPT !.op = "replaceIeds"]
               /\ UNCHANGED dispatched
          ELSE Swapped(currentIed, SwapEdits(doc, currentIed, template))

Rewired(name, rewire) ==
  IF rewire.threw
    THEN /\ doc' = Normalize(doc)
         /\ run' = Ended("threw", run.raw, run.selectedIEDs, run.k)
         /\ last' = [op |-> "threw", name |-> name,
                     inputs |-> IdsOf(run.inputsSections, name),
                     gse |-> IdsOf(run.gseControlSections, name)]
         /\ UNCHANGED dispatched
    ELSE /\ dispatched' = Append(dispatched, Ops(rewire.edits))
         /\ last' = [op |-> "rewire", name |-> name,
                     inputs |-> IdsOf(run.inputsSections, name),
                     gse |-> IdsOf(run.gseControlSections, name)]
         /\ IF run.k < Len(SelectedIds(run.raw))
              THEN /\ doc' = handleEdits(doc, rewire.edits)
                   /\ run' = [run EXCEPT !.pc = "swap", !.k = @ + 1, !.currentIed = 0]
              ELSE /\ doc' = Normalize(handleEdits(doc, rewire.edits))
                   /\ run' = Ended("done", run.raw, run.selectedIEDs, run.k)

\* the rewire batch of the k-th selected device is built and dispatched
RewireIed ==
  /\ run.pc = "rewire"
  /\ Rewired(last.name,
             RewireEdits(doc, run.currentIed, last.name,
                         run.inputsSections, run.gseControlSections))

\* the choices of the filter button: no template, or the device TPL
TemplateChoices == {<<>>, <<"TPL">>}

NextReplace ==
  \/ \E selectedIEDs \in TemplateChoices :
       \E raw \in Selections(doc, selectedIEDs) : ReplaceIeds(raw, selectedIEDs)
  \/ SwapIed
  \/ RewireIed

SpecReplace == InitReplace /\ [][NextReplace]_vars

----------------------------------------------------------------------------
(* Properties of the replacement.                                          *)

\* the devices of the document (attached IED elements) with the name
DevicesNamed(d, name) ==
  {n \in Range(Pre(d, 1)) : d[n].tag = "IED" /\ getAttribute(d, n, "name") = name}

\* the swap batch of device last.name has just been applied
JustSwapped == run.pc = "rewire" /\ last.op = "swap"

\* the tree of the template with the name of the device in place of its own
Renamed(t, name) ==
  [t EXCEPT !.attrs = [a \in DOMAIN t.attrs |-> IF a = "name" THEN name ELSE t.attrs[a]]]

\* C7: Replacement preserves the device name.  Once the swap batch of a
\* selected device A is applied, the node the batch inserted is a deep clone
\* of the template B that carries the name A had before (not the name of B),
\* the document holds exactly one device named as A was, and B is still in
\* the document under its own name.
C7_NamePreserved ==
  JustSwapped =>
    LET templateName == run.selectedIEDs[1] IN
    /\ last.name # templateName
    /\ parentElement(doc, last.newIed) = 1
    /\ getAttribute(doc, last.newIed, "name") = last.name
    /\ DevicesNamed(doc, last.name) = {last.newIed}
    /\ Cardinality(DevicesNamed(doc, templateName)) = 1
    /\ \A b \in DevicesNamed(doc, templateName) :
         ToTree(doc, last.newIed) = Renamed(ToTree(doc, b), last.name)

\* a swap has been applied for the second of two selected devices
C7_Witness == JustSwapped /\ run.k = 2 /\ last.name = "IED2"

\* C8: Replacement preserves the tree position.  Once the swap batch is
\* applied the clone has the parent the original device had and the index
\* among the children of that parent the original had before the swap.
C8_PositionPreserved ==
  JustSwapped =>
    /\ parentElement(doc, last.newIed) = last.parent0
    /\ IndexOf(doc[last.parent0].kids, last.newIed) = last.index0

\* a swap has been applied for a device that was a middle child
C8_Witness ==
  /\ JustSwapped
  /\ last.index0 > 1
  /\ last.index0 < Len(doc[last.parent0].kids)

\* the LN or LN0 of the document an identity resolves to, 0 when none
Resolve(d, id) ==
  LET ln == docQuerySelector(d, LAMBDA n : selector(d, n, "LN", id)) IN
  IF ln # 0 THEN ln ELSE docQuerySelector(d, LAMBDA n : selector(d, n, "LN0", id))

\* the children with the tag of an element
ChildrenOf(d, n, tag) == SelectSeq(d[n].kids, LAMBDA k : d[k].tag = tag)

\* the number of entries of a sequence equal to x
Count(s, x) == Len(SelectSeq(s, LAMBDA y : y = x))

\* the elements with the tag below the device with the name
SectionsOf(d, name, tag) ==
  {n \in Range(Pre(d, 1)) :
     /\ d[n].tag = tag
     /\ getAttribute(d, closest(d, n, {"IED"}), "name") = name}

\* every identity captured from the device resolves in the clone
AllResolve ==
  \A id \in Range(last.inputs) \cup Range(last.gse) :
    LET ln == Resolve(doc, id) IN
    ln # 0 /\ getAttribute(doc, closest(doc, ln, {"IED"}), "name") = last.name

\* the device has the captured number of sections, each under the LN with
\* the captured identity
WiringKept ==
  /\ Cardinality(SectionsOf(doc, last.name, "Inputs")) = Len(last.inputs)
  /\ Cardinality(SectionsOf(doc, last.name, "GSEControl")) = Len(last.gse)
  /\ \A id \in Range(last.inputs) :
       Len(ChildrenOf(doc, Resolve(doc, id), "Inputs")) = Count(last.inputs, id)
  /\ \A id \in Range(last.gse) :
       Len(ChildrenOf(doc, Resolve(doc, id), "GSEControl")) = Count(last.gse, id)

\* C9: Replacement preserves the wiring count.  When every LN / LN0 of the
\* replaced device that owns an Inputs section or a GSEControl has an
\* identity that resolves in the clone, then once both batches of the
\* device are applied the device under that name holds exactly the captured
\* number of Inputs sections and of GSEControls, each under the LN / LN0 of
\* the captured identity.
C9_WiringCountPreserved ==
  (last.op = "rewire" /\ AllResolve) => WiringKept

\* both batches of a device with Inputs and a GSEControl have been applied
C9_Witness ==
  /\ last.op = "rewire"
  /\ AllResolve
  /\ last.inputs # <<>>
  /\ last.gse # <<>>

\* the rewire of a device whose identities all resolve ended in a TypeError
\* before its batch was dispatched
C9_RewireThrew ==
  /\ last.op = "threw"
  /\ AllResolve
  /\ Len(dispatched) = 1

\* no device is selected in the list
ZeroSelected(raw) ==
  raw.kind \in {"undefined", "null"} \/ (raw.kind = "array" /\ raw.items = <<>>)

\* no device of the list is chosen as template
NoTemplateChosen(d, selectedIEDs) ==
  \/ selectedIEDs = <<>>
  \/ \A n \in Range(d[1].kids) :
       d[n].tag = "IED" => getAttribute(d, n, "name") # selectedIEDs[1]

----------------------------------------------------------------------------
(* The subscription foundation: matching an ExtRef against a published     *)
(* data attribute and its control block.                                   *)

\* (left?.getAttribute(attr) ?? '') === (right?.getAttribute(attr) ?? '')
sameAttributeValue(d, leftElement, rightElement, attributeName) ==
  Coalesce(getAttribute(d, leftElement, attributeName), "")
    = Coalesce(getAttribute(d, rightElement, attributeName), "")

sameAttributeValueDiffName(d, leftElement, leftAttributeName, rightElement, rightAttributeName) ==
  Coalesce(getAttribute(d, leftElement, leftAttributeName), "")
    = Coalesce(getAttribute(d, rightElement, rightAttributeName), "")

\* serviceTypes[controlTagName]
serviceTypes(controlTagName) ==
  IF controlTagName = "ReportControl" THEN "Report"
  ELSE IF controlTagName = "GSEControl" THEN "GOOSE"
  ELSE IF controlTagName = "SampledValueControl" THEN "SMV"
  ELSE Undefined

\* checkEditionSpecificRequirements that does not look at the serviceType
checkEditionSpecificRequirements_NoServiceType(d, controlTagName, controlElement, extRefElement) ==
  IF getSclSchemaVersion(d) = "2003" THEN TRUE
  ELSE
    /\ sameAttributeValueDiffName(d, extRefElement, "srcLDInst",
                                  closest(d, controlElement, {"LDevice"}), "inst")
    /\ sameAttributeValueDiffName(d, extRefElement, "srcPrefix",
                                  closest(d, controlElement, {"LN0"}), "prefix")
    /\ sameAttributeValueDiffName(d, extRefElement, "srcLNClass",
                                  closest(d, controlElement, {"LN0"}), "lnClass")
    /\ sameAttributeValueDiffName(d, extRefElement, "srcLNInst",
                                  closest(d, controlElement, {"LN0"}), "inst")
    /\ sameAttributeValueDiffName(d, extRefElement, "srcCBName", controlElement, "name")

checkEditionSpecificRequirements(d, controlTagName, controlElement, extRefElement) ==
  IF getSclSchemaVersion(d) = "2003" THEN TRUE
  ELSE
    /\ Coalesce(getAttribute(d, extRefElement, "serviceType"), "")
         = serviceTypes(controlTagName)
    /\ sameAttributeValueDiffName(d, extRefElement, "srcLDInst",
                                  closest(d, controlElement, {"LDevice"}), "inst")
    /\ sameAttributeValueDiffName(d, extRefElement, "srcPrefix",
                                  closest(d, controlElement, {"LN0"}), "prefix")
    /\ sameAttributeValueDiffName(d, extRefElement, "srcLNClass",
                                  closest(d, controlElement, {"LN0"}), "lnClass")
    /\ sameAttributeValueDiffName(d, extRefElement, "srcLNInst",
                                  closest(d, controlElement, {"LN0"}), "inst")
    /\ sameAttributeValueDiffName(d, extRefElement, "srcCBName", controlElement, "name")

isSubscribed(d, extRefElement) ==
  /\ hasAttribute(d, extRefElement, "iedName")
  /\ hasAttribute(d, extRefElement, "ldInst")
  /\ hasAttribute(d, extRefElement, "lnClass")
  /\ hasAttribute(d, extRefElement, "lnInst")
  /\ hasAttribute(d, extRefElement, "doName")
  /\ hasAttribute(d, extRefElement, "daName")

\* isSubscribedTo that does not compare the prefix
isSubscribedTo_NoPrefix(d, controlTagName, controlElement, fcdaElement, extRefElement) ==
  /\ getAttribute(d, extRefElement, "iedName")
       = getAttribute(d, closest(d, fcdaElement, {"IED"}), "name")
  /\ sameAttributeValue(d, fcdaElement, extRefElement, "ldInst")
  /\ sameAttributeValue(d, fcdaElement, extRefElement, "lnClass")
  /\ sameAttributeValue(d, fcdaElement, extRefElement, "lnInst")
  /\ sameAttributeValue(d, fcdaElement, extRefElement, "doName")
  /\ sameAttributeValue(d, fcdaElement, extRefElement, "daName")
  /\ checkEditionSpecificRequirements(d, controlTagName, controlElement, extRefElement)

isSubscribedTo(d, controlTagName, controlElement, fcdaElement, extRefElement) ==
  /\ getAttribute(d, extRefElement, "iedName")
       = getAttribute(d, closest(d, fcdaElement, {"IED"}), "name")
  /\ sameAttributeValue(d, fcdaElement, extRefElement, "ldInst")
  /\ sameAttributeValue(d, fcdaElement, extRefElement, "prefix")
  /\ sameAttributeValue(d, fcdaElement, extRefElement, "lnClass")
  /\ sameAttributeValue(d, fcdaElement, extRefElement, "lnInst")
  /\ sameAttributeValue(d, fcdaElement, extRefElement, "doName")
  /\ sameAttributeValue(d, fcdaElement, extRefElement, "daName")
  /\ checkEditionSpecificRequirements(d, controlTagName, controlElement, extRefElement)

----------------------------------------------------------------------------
(* Matching: the documents, and the attribute changes made to them.        *)

\* the identifying attributes of a published data attribute
FcdaAttributes == {"ldInst", "prefix", "lnClass", "lnInst", "doName", "daName"}

\* the attributes of an ExtRef that name the control block
SrcAttributes == {"srcLDInst", "srcPrefix", "srcLNClass", "srcLNInst", "srcCBName"}

removeAttribute(d, n, a) ==
  [d EXCEPT ![n].attrs = [x \in (DOMAIN @) \ {a} |-> @[x]]]

\* A publisher with one data set entry and one control block, a subscriber
\* with one ExtRef.  vd: the value of every attribute on the publishing
\* side, vr: of every attribute of the ExtRef but serviceType.
MatchDoc(edition, controlTagName, vd, vr, serviceType) ==
  AddTree(<<>>,
    T("SCL", SclAttrs(edition),
      <<T("IED", Attrs({"name"}, vd),
          <<T("LDevice", Attrs({"inst"}, vd),
              <<T("LN0", Attrs({"prefix", "lnClass", "inst"}, vd),
                  <<T("DataSet", [name |-> "ds"], <<T("FCDA", Attrs(FcdaAttributes, vd), <<>>)>>),
                    T(controlTagName, Attrs({"name"}, vd), <<>>)>>)>>)>>),
        T("IED", [name |-> "S"],
          <<T("LDevice", [inst |-> "LD0"],
              <<T("LN0", [lnClass |-> "LLN0"],
                  <<T("Inputs", NoAttrs,
                      <<T("ExtRef",
                          With(Attrs({"iedName"} \cup FcdaAttributes \cup SrcAttributes, vr),
                               "serviceType", serviceType),
                          <<>>)>>)>>)>>)>>)>>))

TheElement(d, tag) == CHOOSE n \in Elements(d, {tag}) : TRUE

\* the arguments of the last evaluation of isSubscribedTo: an absent
\* control block or data attribute is passed as undefined (0)
MatchArgs(d, controlTagName, withControl, withFcda) ==
  [op |-> "none", controlTagName |-> controlTagName,
   controlElement |-> IF withControl THEN TheElement(d, controlTagName) ELSE 0,
   fcdaElement |-> IF withFcda THEN TheElement(d, "FCDA") ELSE 0,
   extRefElement |-> TheElement(d, "ExtRef"),
   node |-> 0, attr |-> "", from |-> Null, before |-> FALSE]

InitMatch ==
  /\ \E edition \in {"2003", "2007B4"}, controlTagName \in CbTags,
        vd \in {Null, "", "a"}, vr \in {Null, "", "a"},
        serviceType \in {Null, "", "GOOSE", "SMV"},
        withControl \in BOOLEAN, withFcda \in BOOLEAN :
       /\ withControl \/ withFcda
       /\ doc = MatchDoc(edition, controlTagName, vd, vr, serviceType)
       /\ last = MatchArgs(doc, controlTagName, withControl, withFcda)
  /\ run = Idle
  /\ dispatched = <<>>

\* isSubscribedTo with the arguments of l, in the document d
Matches(d, l) ==
  isSubscribedTo(d, l.controlTagName, l.controlElement, l.fcdaElement, l.extRefElement)

\* the elements whose attributes the matching reads: the ExtRef, the data
\* attribute, the control block, and the LN0, LDevice and IED they are in
MatchedElements(d) ==
  {n \in Elements(d, {"ExtRef", "FCDA", "LN0", "LDevice", "IED"} \cup CbTags) :
     Tag(d, n) = "ExtRef" \/ n \in Range(Pre(d, closest(d, TheElement(d, "FCDA"), {"IED"})))}

\* the attributes of an element that the matching reads
MatchedAttributes(d, n) ==
  IF Tag(d, n) = "ExtRef"
    THEN {"iedName", "serviceType"} \cup FcdaAttributes \cup SrcAttributes
  ELSE IF Tag(d, n) = "FCDA" THEN FcdaAttributes
  ELSE IF Tag(d, n) = "LN0" THEN {"prefix", "lnClass", "inst"}
  ELSE IF Tag(d, n) = "LDevice" THEN {"inst"}
  ELSE {"name"}

Changed(n, a) ==
  last' = [last EXCEPT !.op = "changed", !.node = n, !.attr = a,
                       !.from = getAttribute(doc, n, a),
                       !.before = Matches(doc, last)]

\* one attribute of one element is given another value
SetAttribute(n, a, v) ==
  /\ last.op = "none"
  /\ getAttribute(doc, n, a) # v
  /\ doc' = setAttribute(doc, n, a, v)
  /\ Changed(n, a)
  /\ UNCHANGED <<run, dispatched>>

\* one attribute of one element is taken away
RemoveAttribute(n, a) ==
  /\ last.op = "none"
  /\ hasAttribute(doc, n, a)
  /\ doc' = removeAttribute(doc, n, a)
  /\ Changed(n, a)
  /\ UNCHANGED <<run, dispatched>>

NextMatch ==
  \/ \E n \in MatchedElements(doc) : \E a \in MatchedAttributes(doc, n) :
       \E v \in {"", "a", "b", "GOOSE", "SMV"} :
          /\ v \in {"GOOSE", "SMV"} => a = "serviceType"
          /\ SetAttribute(n, a, v)
  \/ \E n \in MatchedElements(doc) : \E a \in MatchedAttributes(doc, n) :
       RemoveAttribute(n, a)

SpecMatch == InitMatch /\ [][NextMatch]_vars

----------------------------------------------------------------------------
(* Properties of the matching.                                             *)

\* the device that owns the data attribute of the evaluation
OwnerDevice == closest(doc, last.fcdaElement, {"IED"})

\* absent read as the empty string
OrEmpty(v) == Coalesce(v, "")

\* the match as it is specified: the owner device by name, the six
\* identifying attributes with absent read as empty, the edition check
MatchAsSpecified ==
  /\ getAttribute(doc, last.extRefElement, "iedName") = getAttribute(doc, OwnerDevice, "name")
  /\ \A a \in FcdaAttributes :
       OrEmpty(getAttribute(doc, last.fcdaElement, a))
         = OrEmpty(getAttribute(doc, last.extRefElement, a))
  /\ checkEditionSpecificRequirements(doc, last.controlTagName, last.controlElement,
                                      last.extRefElement)

MatchIffSpecified == last.fcdaElement # 0 => (Matches(doc, last) <=> MatchAsSpecified)

\* the last change was to the owner-device attribute, on either side
ChangedOwnerAttribute ==
  \/ last.node = last.extRefElement /\ last.attr = "iedName"
  \/ last.node = OwnerDevice /\ last.attr = "name"

\* the last change was to one of the six identifying attributes, on
\* either side
ChangedIdentifyingAttribute ==
  /\ last.node \in {last.extRefElement, last.fcdaElement}
  /\ last.attr \in FcdaAttributes

\* a reference that matched had one of the compared attributes changed
ChangedFromMatch ==
  /\ last.op = "changed"
  /\ last.fcdaElement # 0
  /\ last.before
  /\ ChangedOwnerAttribute \/ ChangedIdentifyingAttribute

\* the last change was between absent and the empty string
BetweenAbsentAndEmpty ==
  OrEmpty(last.from) = OrEmpty(getAttribute(doc, last.node, last.attr))

\* C11 as stated: isSubscribedTo is true exactly when the specified
\* conditions hold, and from a true result every change of a single one of
\* the seven compared attributes on one side makes it false.
C11_AsStated ==
  /\ MatchIffSpecified
  /\ ChangedFromMatch => ~Matches(doc, last)

\* C11: isSubscribedTo is true exactly when r's iedName equals the name of
\* the device owning d, the six identifying attributes agree with absent
\* read as empty, and the edition check holds; from a true result a change
\* of the owner-device attribute on one side, or a change of one of the six
\* on one side other than between absent and empty, makes it false.
C11_MatchSymmetry ==
  /\ MatchIffSpecified
  /\ (ChangedFromMatch /\ (ChangedOwnerAttribute \/ ~BetweenAbsentAndEmpty))
       => ~Matches(doc, last)

\* a matching reference without iedName, of a device without name, had
\* its iedName set and no longer matches
C11_Witness ==
  /\ ChangedFromMatch
  /\ last.node = last.extRefElement /\ last.attr = "iedName" /\ last.from = Null
  /\ ~Matches(doc, last)

\* the attributes isSubscribed looks at
SubscribedAttributes == {"iedName", "ldInst", "lnClass", "lnInst", "doName", "daName"}

\* C12: isSubscribed(r) is true exactly when each of iedName, ldInst,
\* lnClass, lnInst, doName and daName is present on r and non-empty; a
\* reference on which one of them is present but empty is not subscribed.
C12_SubscribedIffNonEmpty ==
  isSubscribed(doc, last.extRefElement)
    <=> \A a \in SubscribedAttributes :
          /\ hasAttribute(doc, last.extRefElement, a)
          /\ getAttribute(doc, last.extRefElement, a) # ""

\* a reference with the six attributes present, lnInst empty, is reported
\* as subscribed
C12_Witness ==
  /\ \A a \in SubscribedAttributes : hasAttribute(doc, last.extRefElement, a)
  /\ getAttribute(doc, last.extRefElement, "lnInst") = ""
  /\ getAttribute(doc, last.extRefElement, "iedName") = "a"
  /\ isSubscribed(doc, last.extRefElement)

\* the control block of the document
TheControlBlock == TheElement(doc, last.controlTagName)

\* the structural components of the reference to a control block: the
\* class of its logical node, the instance of its logical device, the name
\* of its device, its own name
StructuralComponents(d, controlBlock) ==
  {Components(d, controlBlock)[c] : c \in {"lnClass", "ldInst", "iedName", "cbName"}}

\* a component that is not there
Unresolved(v) == v \in {Null, Undefined}

\* C13: controlBlockReference(c) is null whenever one of the structural
\* components (logical node class, logical-device instance, device name,
\* control block name) cannot be resolved, and is the reference string only
\* when all of them are resolved, so that no component is ever rendered as
\* 'null' or 'undefined'.
C13_NullWhenAnyUnresolved ==
  (\E v \in StructuralComponents(doc, TheControlBlock) : Unresolved(v))
    => controlBlockReference(doc, TheControlBlock) = Null

\* a control block without name in a named device, logical device and
\* logical node gets a reference string that ends in 'null'
C13_Witness ==
  /\ getAttribute(doc, TheControlBlock, "name") = Null
  /\ controlBlockReference(doc, TheControlBlock) = "aa/aaa.null"

\* the edition check of the last evaluation
EditionCheck ==
  checkEditionSpecificRequirements(doc, last.controlTagName, last.controlElement,
                                   last.extRefElement)

\* the message type implied by the kind of control block
MessageType(kind) == IF kind = "GSEControl" THEN "GOOSE" ELSE "SMV"

\* the logical node and the logical device that own the control block
ControlLN == closest(doc, last.controlElement, {"LN", "LN0"})
ControlLDevice == closest(doc, last.controlElement, {"LDevice"})

\* the attribute a of the ExtRef and the attribute b of the element n are
\* equal, absent read as empty
SameOrBothAbsent(a, n, b) ==
  OrEmpty(getAttribute(doc, last.extRefElement, a)) = OrEmpty(getAttribute(doc, n, b))

\* C14: the edition check is true for every document of edition 2003; for
\* a later edition it is true exactly when the serviceType of r is the
\* message type of the kind of control block, srcLDInst is the inst of the
\* control block's LDevice, srcPrefix, srcLNClass and srcLNInst are prefix,
\* lnClass and inst of its logical node and srcCBName is its name, an
\* absent attribute read as the empty string in every comparison.
C14_EditionGating ==
  IF getSclSchemaVersion(doc) = "2003" THEN EditionCheck
  ELSE EditionCheck
         <=> /\ OrEmpty(getAttribute(doc, last.extRefElement, "serviceType"))
                  = OrEmpty(MessageType(last.controlTagName))
             /\ SameOrBothAbsent("srcLDInst", ControlLDevice, "inst")
             /\ SameOrBothAbsent("srcPrefix", ControlLN, "prefix")
             /\ SameOrBothAbsent("srcLNClass", ControlLN, "lnClass")
             /\ SameOrBothAbsent("srcLNInst", ControlLN, "inst")
             /\ SameOrBothAbsent("srcCBName", last.controlElement, "name")

\* in a later edition a reference of the right serviceType passes the
\* check with the src attributes absent on it and the control block
\* without name, and after a change fails it
C14_Witness ==
  /\ getSclSchemaVersion(doc) # "2003"
  /\ last.controlElement # 0
  /\ EditionCheck
  /\ ~hasAttribute(doc, last.extRefElement, "srcCBName")
  /\ ~hasAttribute(doc, last.controlElement, "name")
  /\ last.op = "changed"

----------------------------------------------------------------------------
(* Properties of the supervision allocator: capacity, batches, slots.      *)

\* what the device declares as capacity for a message type: Undefined
\* without SupSubscription, Null without the attribute
DeclaredCapacity(d, ied, cbTag) ==
  getAttribute(d,
    querySelector(d, ied, LAMBDA n :
      Tag(d, n) = "SupSubscription" /\ Tag(d, parentElement(d, n)) = "Services"),
    IF cbTag = "GSEControl" THEN "maxGo" ELSE "maxSv")

\* the text is not the numeral of a number
NonNumeric(v) == \A i \in 0..(MaxCap + 1) : v # ToString(i)

\* every call of instantiateSubscriptionSupervision for the device and a
\* control block of the type returns the empty batch
NeverInstantiates(ied, cbTag) ==
  \A cb \in Elements(doc, {cbTag}) : \A existing \in {0} \cup SupervisionLNs(doc, ied, cb) :
    instantiateSubscriptionSupervision(doc, cb, ied, existing).edits = <<>>

\* the capacity of the device for the type is 0 and nothing is instantiated
CapacityZero(ied, cbTag) ==
  /\ maxSupervisions(doc, ied, cbTag) = 0
  /\ NeverInstantiates(ied, cbTag)

NotApplicable(cb, ied, existing) ==
  \/ cb = 0 \/ ied = 0
  \/ getSclSchemaVersion(doc) = "2003"
  \/ ~HasSupervisionLN(doc, ied, Tag(doc, cb))
  \/ Supervised(doc, cb, ied)
  \/ Occupied(doc, ied, Tag(doc, cb)) >= maxSupervisions(doc, ied, Tag(doc, cb))
  \/ /\ existing = 0
     /\ findOrCreateAvailableLNInst(doc, cb, ied, SupervisionType(Tag(doc, cb))).ln = 0
  \/ ~isSupervisionModificationAllowed(doc, ied, SupervisionType(Tag(doc, cb)))

\* the batch r.edits is not empty and ends with the Insert of a Val that
\* holds the reference to cb
EndsWithReference(r, cb) ==
  /\ r.edits # <<>>
  /\ r.edits[Len(r.edits)].op = "Insert"
  /\ Tag(r.d, r.edits[Len(r.edits)].node) = "Val"
  /\ textContent(r.d, r.edits[Len(r.edits)].node) = controlBlockReference(doc, cb)

\* the arguments instantiateSubscriptionSupervision can be called with:
\* control block and device can be undefined (0)
InstantiateArgs ==
  {[cb |-> cb, ied |-> ied, existing |-> 0] :
     cb \in ControlBlocks(doc) \cup {0}, ied \in SubscriberIEDs(doc) \cup {0}}
  \cup UNION {{[cb |-> cb, ied |-> ied, existing |-> ln] : ln \in SupervisionLNs(doc, ied, cb)} :
                cb \in ControlBlocks(doc), ied \in SubscriberIEDs(doc)}

\* C16: instantiateSubscriptionSupervision returns the empty batch whenever
\* the control block or the device is undefined, the edition is 2003, the
\* device has no LN of the supervision class, a record already holds the
\* reference to the control block, the occupied count has reached the
\* capacity, no slot can be found or made, or modification is not allowed;
\* otherwise the batch is not empty and its last action is the Insert of a
\* Val whose text is controlBlockReference of the control block.
C16_EmptyOrEndsWithReference ==
  \A a \in InstantiateArgs :
    Let(instantiateSubscriptionSupervision(doc, a.cb, a.ied, a.existing), LAMBDA r :
      IF NotApplicable(a.cb, a.ied, a.existing)
        THEN r.edits = <<>>
        ELSE EndsWithReference(r, a.cb))

\* a batch was returned and applied: its last action inserted a Val with
\* the reference to the control block, where none of the conditions held
C16_Witness ==
  /\ last.op = "instantiate" /\ last.edits # <<>>
  /\ last.edits[Len(last.edits)].op = "Insert"
  /\ Tag(doc, last.edits[Len(last.edits)].node) = "Val"
  /\ textContent(doc, last.edits[Len(last.edits)].node)
       = controlBlockReference(doc, last.cb)
  /\ last.existing = 0

\* the LNs of the supervision class on the device, in document order
ClassLNs(d, ied, supervisionType) ==
  SelectSeq(Descendants(d, ied), LAMBDA n : IsSupervisionLN(d, n, supervisionType))

\* the setSrcRef Val of the LN (the first, should there be several) is
\* absent or has no text
HoldsNoValue(d, ln, supervisionType) ==
  LET vals == SelectSeq(Descendants(d, ln), LAMBDA n :
                IsSetSrcRefVal(d, n, SupervisionName(supervisionType)))
  IN vals = <<>> \/ textContent(d, vals[1]) = ""

\* the instance numbers the LNs of the class use on the device
UsedInsts(d, ied, supervisionType) ==
  {getAttribute(d, ln, "inst") : ln \in Range(ClassLNs(d, ied, supervisionType))}

\* ln is a new LN made for the device: type of an existing instance, the
\* marker of the engine, the lowest number no instance uses
SynthesizedFor(r, ied, supervisionType) ==
  /\ r.ln > Len(doc) /\ parentElement(r.d, r.ln) = 0
  /\ Is(r.d, r.ln, "LN", "lnClass", supervisionType)
  /\ \E ln \in Range(ClassLNs(doc, ied, supervisionType)) :
       getAttribute(r.d, r.ln, "lnType") = getAttribute(doc, ln, "lnType")
  /\ \E k \in Range(r.d[r.ln].kids) : IsOpenScdCreate(r.d, k)
  /\ \E i \in 1..LnInstRangeMax :
       /\ getAttribute(r.d, r.ln, "inst") = ToString(i)
       /\ ToString(i) \notin UsedInsts(doc, ied, supervisionType)
       /\ \A j \in 1..(i - 1) : ToString(j) \in UsedInsts(doc, ied, supervisionType)

\* the slot r found for the device is as specified
SlotAsSpecified(r, ied, supervisionType) ==
  IF \E ln \in Range(ClassLNs(doc, ied, supervisionType)) :
       HoldsNoValue(doc, ln, supervisionType)
    THEN /\ r.ln \in Range(ClassLNs(doc, ied, supervisionType))
         /\ HoldsNoValue(doc, r.ln, supervisionType)
  ELSE IF ClassLNs(doc, ied, supervisionType) = <<>> THEN r.ln = 0
  ELSE SynthesizedFor(r, ied, supervisionType)

\* C17: findOrCreateAvailableLNInst returns an existing LN of the
\* supervision class whose setSrcRef Val is absent or empty whenever the
\* device has one; only when every such LN holds a value does it make a new
\* LN, with the lnType of an existing instance, the Private marker
\* OpenSCD.create and the lowest instance number no LN of the class on the
\* device uses; it returns null when there is no instance to copy the type
\* from.
C17_SlotSelection ==
  \A ied \in SubscriberIEDs(doc), cb \in ControlBlocks(doc) :
    SlotAsSpecified(
      findOrCreateAvailableLNInst(doc, cb, ied, SupervisionType(Tag(doc, cb))),
      ied, SupervisionType(Tag(doc, cb)))

\* a batch has put a synthesized LN into the device, whose only instance
\* held a value: it carries the marker and the instance number 2
C17_Witness ==
  /\ last.op = "instantiate" /\ last.edits # <<>>
  /\ Tag(doc, last.edits[1].node) = "LN"
  /\ getAttribute(doc, last.edits[1].node, "inst") = "2"
  /\ \E k \in Range(doc[last.edits[1].node].kids) : IsOpenScdCreate(doc, k)

\* the last batch began with the Insert of a synthesized LN
InsertedNewLN ==
  /\ last.op = "instantiate" /\ last.edits # <<>>
  /\ last.edits[1].op = "Insert"
  /\ Tag(doc, last.edits[1].node) = "LN"

\* the LN the last batch inserted, and its supervision class
NewLN == last.edits[1].node
NewLNClass == SupervisionType(Tag(doc, last.cb))

\* the LNs of the class that were there before the last batch
EarlierLNs == {n \in Range(ClassLNs(doc, last.ied, NewLNClass)) : n # NewLN}

\* C18: when instantiateSubscriptionSupervision makes a new LN, the first
\* action of the batch inserts it under the parent of the existing
\* supervision LNs, before the element that followed the last existing LN
\* of the class: once the batch is applied the new LN is the immediate next
\* sibling of the LN of the class that was last before, also when elements
\* of another kind follow the supervision LNs.
C18_PlacedAfterLastSupervisionLN ==
  InsertedNewLN =>
    /\ \A n \in EarlierLNs : parentElement(doc, n) = last.edits[1].parent
    /\ parentElement(doc, NewLN) = last.edits[1].parent
    /\ previousElementSibling(doc, NewLN) \in EarlierLNs
    /\ \A n \in EarlierLNs : IndexOf(Pre(doc, 1), n) <= IndexOf(Pre(doc, 1),
                                                        previousElementSibling(doc, NewLN))

\* a synthesized LGOS instance was inserted without reference and stands
\* after the LSVS instance that followed the LGOS instances
C18_Witness ==
  /\ InsertedNewLN
  /\ last.edits[1].reference = 0
  /\ NewLNClass = "LGOS"
  /\ Is(doc, previousElementSibling(doc, NewLN), "LN", "lnClass", "LSVS")
  /\ nextElementSibling(doc, NewLN) = 0

\* the Val children of the element n
ValsOf(d, n) == SelectSeq(d[n].kids, LAMBDA k : Tag(d, k) = "Val")

\* every Remove of the batch comes before its last action and takes a Val
\* out of the DAI that the last action inserts the new Val into
RemovesOnlyFromTarget(r) ==
  \A i \in DOMAIN r.edits :
    r.edits[i].op = "Remove" =>
      /\ i < Len(r.edits)
      /\ Tag(r.d, r.edits[i].node) = "Val"
      /\ parentElement(r.d, r.edits[i].node) = r.edits[Len(r.edits)].parent

\* in the document d2 the DAI is a setSrcRef of the supervision DOI and
\* holds one Val, with the reference to cb
HoldsOnlyReference(d2, dai, cb) ==
  /\ IsSetSrcRef(d2, dai, SupervisionName(SupervisionType(Tag(doc, cb))))
  /\ Len(ValsOf(d2, dai)) = 1
  /\ textContent(d2, ValsOf(d2, dai)[1]) = controlBlockReference(doc, cb)

\* C19: the only Remove of an instantiate batch takes a Val out of the
\* setSrcRef DAI (under the GoCBRef / SvCBRef DOI) that the new Val is
\* inserted into, and comes before that Insert; once the batch is applied
\* that DAI holds exactly one Val, with the reference to the control block,
\* and no Val elsewhere in the LN has been removed.
C19_ValueReplaced ==
  \A a \in InstantiateArgs :
    Let(instantiateSubscriptionSupervision(doc, a.cb, a.ied, a.existing), LAMBDA r :
      r.edits # <<>> =>
        /\ RemovesOnlyFromTarget(r)
        /\ HoldsOnlyReference(handleEdits(r.d, r.edits),
                              r.edits[Len(r.edits)].parent, a.cb))

\* a batch with a Remove was applied to an LN with a Beh DOI: the stVal DAI
\* of the LN has lost its Val, the setSrcRef DAI holds two
C19_Witness ==
  /\ last.op = "instantiate" /\ last.edits # <<>>
  /\ \E i \in DOMAIN last.edits : last.edits[i].op = "Remove"
  /\ Len(ValsOf(doc, last.edits[Len(last.edits)].parent)) = 2
  /\ \E n \in Range(Descendants(doc,
                      closest(doc, last.edits[Len(last.edits)].parent, {"LN"}))) :
       Is(doc, n, "DAI", "name", "stVal") /\ ValsOf(doc, n) = <<>>

\* the element declares its value configurable and importable
Modifiable(d, n) ==
  getAttribute(d, n, "valKind") \in {"Conf", "RO"} /\ getAttribute(d, n, "valImport") = "true"

\* the setSrcRef DAI of the LN says that its value may be modified
InstanceAllows(d, ln, supervisionType) ==
  LET dais == SelectSeq(Descendants(d, ln), LAMBDA n :
                IsSetSrcRef(d, n, SupervisionName(supervisionType)))
  IN dais # <<>> /\ Modifiable(d, dais[1])

\* n is a child of a child of DataTypeTemplates
InTemplates(d, n) == Tag(d, parentElement(d, parentElement(d, n))) = "DataTypeTemplates"

\* the definition of the LN in DataTypeTemplates (its LNodeType, the DO of
\* the supervision reference, its DOType) says that setSrcRef may be modified
TemplateAllows(d, ln, supervisionType) ==
  \E do \in Elements(d, {"DO"}), da \in Elements(d, {"DA"}) :
    /\ InTemplates(d, do) /\ InTemplates(d, da)
    /\ Is(d, do, "DO", "name", SupervisionName(supervisionType))
    /\ Is(d, parentElement(d, do), "LNodeType", "id", getAttribute(d, ln, "lnType"))
    /\ getAttribute(d, parentElement(d, do), "lnClass") = supervisionType
    /\ Is(d, da, "DA", "name", "setSrcRef")
    /\ Is(d, parentElement(d, da), "DOType", "id", getAttribute(d, do, "type"))
    /\ Modifiable(d, da)

\* modification as it is specified: decided by the first LN of the class
ModificationAsSpecified(d, ied, supervisionType) ==
  /\ ClassLNs(d, ied, supervisionType) # <<>>
  /\ \/ InstanceAllows(d, ClassLNs(d, ied, supervisionType)[1], supervisionType)
     \/ TemplateAllows(d, ClassLNs(d, ied, supervisionType)[1], supervisionType)

\* C20: isSupervisionModificationAllowed is true exactly when the first LN
\* of the supervision class on the device has a setSrcRef DAI with valKind
\* Conf or RO and valImport true, or else the LNodeType / DOType definition
\* of that first LN has such a setSrcRef DA; it is false for a device
\* without LN of the class and when neither allows, whatever the other
\* supervision LNs of the device say.
C20_ModificationByFirstLN ==
  \A ied \in Elements(doc, {"IED"}), supervisionType \in {"LGOS", "LSVS"} :
    isSupervisionModificationAllowed(doc, ied, supervisionType)
      <=> ModificationAsSpecified(doc, ied, supervisionType)

\* the first LN of the class has lost its supervision DOI to a remove
\* batch, a later LN has a setSrcRef that allows, the templates do not:
\* modification is not allowed
C20_Witness ==
  /\ last.op = "remove"
  /\ \E ied \in SubscriberIEDs(doc), supervisionType \in {"LGOS", "LSVS"} :
       /\ Len(ClassLNs(doc, ied, supervisionType)) >= 2
       /\ ~InstanceAllows(doc, ClassLNs(doc, ied, supervisionType)[1], supervisionType)
       /\ InstanceAllows(doc, ClassLNs(doc, ied, supervisionType)[2], supervisionType)
       /\ ~isSupervisionModificationAllowed(doc, ied, supervisionType)

----------------------------------------------------------------------------
(* Properties of the batches: what one replaceIeds dispatches, and what    *)
(* the actions of a batch refer to.                                        *)

\* replaceIeds has returned or has ended in a TypeError
RunEnded == run.pc \in {"done", "threw"}

\* C21: All-or-nothing per operation.  When an invocation of replaceIeds
\* is over, either every batch of the operation has been dispatched (a swap
\* and a rewire batch for each selected device) or none has; it has not
\* stopped with a fault after a swap batch was dispatched.
C21_AllOrNothing ==
  RunEnded =>
    \/ dispatched = <<>>
    \/ Len(dispatched) = 2 * Len(SelectedIds(run.raw))

\* replaceIeds ended in a TypeError after the swap batch of a device that
\* owns no GSEControl, for which nothing was captured
C21_Witness ==
  /\ run.pc = "threw"
  /\ last.op = "threw"
  /\ last.gse = <<>>
  /\ last.inputs # <<>>
  /\ Len(dispatched) = 1

\* ownerDocument.getRootNode(): the Document, the parent of node 1
DocumentNode == 0 - 1

\* the Inserts of the captured Inputs into the LN found by identity in the
\* document as it is while the batch is built, none checked for null
InsertsOfInputs(d, transfers) ==
  [i \in DOMAIN transfers |-> Insert(Resolve(d, transfers[i].id), transfers[i].input, 0)]

\* the single batch of the earlier version of replaceIeds: the swap and
\* the Inserts of the captured Inputs; the clone is named as the template
editActions(d, currentIed, template, inputsSections) ==
  IF Str(getAttribute(d, currentIed, "name")) \notin DOMAIN inputsSections THEN Thrown
  ELSE [d |-> setAttribute(cloneNode(d, template), Len(d) + 1, "name",
                           Coalesce(getAttribute(d, template, "name"), "Unknown")),
        edits |-> <<Remove(currentIed),
                    Insert(DocumentNode, Len(d) + 1, previousElementSibling(d, currentIed))>>
                  \o InsertsOfInputs(d, inputsSections[Str(getAttribute(d, currentIed, "name"))]),
        threw |-> FALSE]

\* n is r or lies in the subtree of r
Under(d, n, r) == n = r \/ (n > 0 /\ r > 0 /\ n \in Range(Descendants(d, r)))

\* an Insert of the batch has as parent or reference a node that an
\* earlier Remove of the batch removes, or a node in the subtree of one
RefersToRemoved(d, edits) ==
  \E i, j \in DOMAIN edits :
    /\ i < j
    /\ edits[i].op = "Remove"
    /\ edits[j].op = "Insert"
    /\ \/ Under(d, edits[j].parent, edits[i].node)
       \/ Under(d, edits[j].reference, edits[i].node)

\* the device the next swap batch is for, 0 when it is not found
NextIed ==
  docQuerySelector(doc, LAMBDA n : selector(doc, n, "IED", SelectedIds(run.raw)[run.k]))

\* the swap batch about to be built keeps clear of what it removes
SwapBatchClear ==
  (run.pc = "swap" /\ NextIed # 0) =>
    ~RefersToRemoved(doc, SwapEdits(doc, NextIed, selectedIed(doc, run.selectedIEDs)).edits)

\* the rewire batch about to be built keeps clear of what it removes
RewireBatchClear ==
  run.pc = "rewire" =>
    ~RefersToRemoved(doc, RewireEdits(doc, run.currentIed, last.name,
                                      run.inputsSections, run.gseControlSections).edits)

\* the batch the earlier version builds for the first selected device
\* keeps clear of what it removes
EarlierBatchClear ==
  (run.pc = "swap" /\ run.k = 1 /\ NextIed # 0) =>
    ~RefersToRemoved(doc, editActions(doc, NextIed, selectedIed(doc, run.selectedIEDs),
                                      run.inputsSections).edits)

\* C22: No batch replaceIeds builds, the swap and the rewire batch and the
\* single batch of its earlier version, contains an Insert whose parent or
\* reference is, or lies inside the subtree of, a node removed by an
\* earlier Remove of the same batch.
C22_NoInsertIntoRemoved ==
  SwapBatchClear /\ RewireBatchClear /\ EarlierBatchClear

\* the earlier version is about to build the batch for a device with an
\* Inputs section
C22_Witness ==
  /\ run.pc = "swap"
  /\ run.k = 1
  /\ NextIed # 0
  /\ Len(editActions(doc, NextIed, selectedIed(doc, run.selectedIEDs),
                     run.inputsSections).edits) > 2

\* the node is in the document
Attached(d, n) == n > 0 /\ n \in Range(Pre(d, 1))

\* the action can land on the document as it is: a Remove of an attached
\* node, an Insert below an attached parent before one of its children
\* or without reference
WellFormed(d, e) ==
  IF e.op = "Remove" THEN Attached(d, e.node)
  ELSE /\ Attached(d, e.parent)
       /\ e.reference = 0 \/ parentElement(d, e.reference) = e.parent

RECURSIVE WellFormedBatch(_, _)
\* every action of the batch is well-formed when its turn comes
WellFormedBatch(d, edits) ==
  IF edits = <<>> THEN TRUE
  ELSE WellFormed(d, Head(edits)) /\ WellFormedBatch(handleEdit(d, Head(edits)), Tail(edits))

\* the swap batch about to be dispatched for the device
TheSwap == SwapEdits(doc, NextIed, selectedIed(doc, run.selectedIEDs))

\* the rewire batch about to be dispatched for the device, Thrown when the
\* building ends in a TypeError
TheRewire ==
  RewireEdits(doc, run.currentIed, last.name, run.inputsSections, run.gseControlSections)

\* C23: Well-formed primitives.  When each action of a dispatched batch is
\* applied, in list order, every Remove targets a node attached to the
\* document and every Insert has a parent attached to the document and a
\* reference that is absent or a child of that parent; so for the swap
\* batch and for the rewire batch, which is built after the swap batch has
\* been applied.
C23_WellFormedPrimitives ==
  /\ (run.pc = "swap" /\ NextIed # 0) => WellFormedBatch(TheSwap.d, TheSwap.edits)
  /\ (run.pc = "rewire" /\ ~TheRewire.threw) => WellFormedBatch(doc, TheRewire.edits)

\* a rewire batch that removes a GSEControl and inserts a captured one is
\* about to be dispatched
C23_Witness ==
  /\ run.pc = "rewire"
  /\ ~TheRewire.threw
  /\ last.op = "swap"
  /\ \E i, j \in DOMAIN TheRewire.edits :
       /\ i < j
       /\ TheRewire.edits[i].op = "Remove" /\ Tag(doc, TheRewire.edits[i].node) = "GSEControl"
       /\ TheRewire.edits[j].op = "Insert" /\ Tag(doc, TheRewire.edits[j].node) = "GSEControl"

\* the GSEControls below the device with the name, in document order, by
\* value
GseControlsOf(d, name) ==
  LET gse == SelectSeq(Pre(d, 1), LAMBDA n :
               /\ d[n].tag = "GSEControl"
               /\ d[parentElement(d, n)].tag = "LN0"
               /\ getAttribute(d, closest(d, n, {"IED"}), "name") = name)
  IN [i \in DOMAIN gse |-> ToTree(d, gse[i])]

\* the GSEControls captured from the device with the name, in the order of
\* their capture, by value
CapturedGseControls(d, sections, name) ==
  IF name \notin DOMAIN sections THEN <<>>
  ELSE [i \in DOMAIN sections[name] |-> ToTree(d, sections[name][i].input)]

\* C24: Outbound message definitions after replacement.  Once the rewire
\* batch of a device is applied, the GSEControl children of the LN0 of the
\* new device are exactly the GSEControls captured from the replaced
\* device, in the order they had there; none of the template's own remain.
C24_GseControlsReplaced ==
  [][(run.pc = "rewire" /\ last'.op = "rewire")
       => GseControlsOf(doc', last.name)
            = CapturedGseControls(doc, run.gseControlSections, last.name)]_vars

\* the rewire batch of a device with a captured GSEControl has been applied
\* to the clone of a template that has a GSEControl of its own
C24_Witness ==
  /\ last.op = "rewire"
  /\ last.gse # <<>>
  /\ \E i \in DOMAIN GseControlsOf(doc, "TPL") : TRUE

\* the records captured for the device with the name
RecordsOf(sections, name) == IF name \in DOMAIN sections THEN Range(sections[name]) ELSE {}

\* the LN0 of the document a captured GSEControl is inserted into, 0 when
\* its identity finds none
ResolveLN0(d, id) == docQuerySelector(d, LAMBDA n : selector(d, n, "LN0", id))

\* the batch relocates the captured element into the parent
Relocates(edits, input, parent) ==
  \E i \in DOMAIN edits :
    edits[i].op = "Insert" /\ edits[i].node = input /\ edits[i].parent = parent

\* the batch has an action for the captured element
ActsOn(edits, input) == \E i \in DOMAIN edits : edits[i].node = input

\* a record captured for the device being rewired has an identity that
\* finds no LN or LN0 in the document after the swap
SomeUnresolved ==
  \/ \E r \in RecordsOf(run.inputsSections, last.name) : Resolve(doc, r.id) = 0
  \/ \E r \in RecordsOf(run.gseControlSections, last.name) : ResolveLN0(doc, r.id) = 0

\* the batch drops the unresolved records and relocates the others
DropsUnresolved(edits) ==
  /\ \A i \in DOMAIN edits : edits[i].op = "Insert" => edits[i].parent # 0
  /\ \A r \in RecordsOf(run.inputsSections, last.name) :
       IF Resolve(doc, r.id) = 0 THEN ~ActsOn(edits, r.input)
       ELSE Relocates(edits, r.input, Resolve(doc, r.id))
  /\ \A r \in RecordsOf(run.gseControlSections, last.name) :
       IF ResolveLN0(doc, r.id) = 0 THEN ~ActsOn(edits, r.input)
       ELSE Relocates(edits, r.input, ResolveLN0(doc, r.id))

\* C25: Unresolvable wiring is dropped silently.  When the identity of the
\* LN or LN0 that owned a captured Inputs or GSEControl does not resolve in
\* the document after the swap, the rewire batch holds no action for that
\* record and no Insert with a null parent, no fault is raised, and the
\* records that do resolve are relocated by the batch that is dispatched.
C25_UnresolvedDropped ==
  (run.pc = "rewire" /\ SomeUnresolved) =>
    (~TheRewire.threw /\ DropsUnresolved(TheRewire.edits))

\* a rewire batch is about to be dispatched for a device with a captured
\* GSEControl whose LN0 is not found in the clone
C25_Witness ==
  /\ run.pc = "rewire"
  /\ ~TheRewire.threw
  /\ \E r \in RecordsOf(run.gseControlSections, last.name) : ResolveLN0(doc, r.id) = 0

\* the devices named as the chosen template, by value
TemplatesIn(d) ==
  {ToTree(d, n) : n \in DevicesNamed(d, run.selectedIEDs[1])}

SwapsAndRewiresInTurn ==
  /\ \A i \in DOMAIN dispatched : i % 2 = 1 => dispatched[i] = <<"Remove", "Insert">>
  /\ run.pc = "swap" => Len(dispatched) = 2 * (run.k - 1)
  /\ run.pc = "rewire" => Len(dispatched) = 2 * run.k - 1

\* the swap batch is the Remove of the device and the Insert of the clone
SwapIsRemoveInsert ==
  (run.pc = "swap" /\ NextIed # 0) =>
    /\ Len(TheSwap.edits) = 2
    /\ TheSwap.edits[1] = Remove(NextIed)
    /\ TheSwap.edits[2].op = "Insert" /\ TheSwap.edits[2].node = TheSwap.newIed

\* C27: Dispatch ordering.  For k selected devices replaceIeds dispatches
\* exactly 2k batches, in the order swap, rewire, swap, rewire, ...; the
\* swap batch of a device is dispatched and applied before its rewire batch
\* is built, and consists of the Remove of the original and the Insert of
\* the clone.
C27_DispatchOrder ==
  /\ SwapsAndRewiresInTurn
  /\ SwapIsRemoveInsert
  /\ RunEnded => Len(dispatched) = 2 * Len(SelectedIds(run.raw))

\* replaceIeds is over for two selected devices with the rewire batch of
\* the second one missing
C27_Witness ==
  /\ run.pc = "threw"
  /\ Len(SelectedIds(run.raw)) = 2
  /\ Len(dispatched) = 3

----------------------------------------------------------------------------
(* The subscription foundation: the data attributes an ExtRef refers to.   *)

\* the comparison of findFCDAs without the attribute daName
findFCDAs_NoDaName(d, extRef) ==
  IF Tag(d, extRef) # "ExtRef" \/ closest(d, extRef, {"Private"}) # 0 THEN <<>>
  ELSE Let(First(SelectSeq(Pre(d, 1), LAMBDA element :
             /\ d[element].tag = "IED"
             /\ getAttribute(d, element, "name") = getAttribute(d, extRef, "iedName")
             /\ closest(d, element, {"Private"}) = 0)),
           LAMBDA ied :
    IF ied = 0 THEN <<>>
    ELSE SelectSeq(Descendants(d, ied), LAMBDA fcda :
           /\ d[fcda].tag = "FCDA"
           /\ closest(d, fcda, {"Private"}) = 0
           /\ \A a \in {"ldInst", "prefix", "lnClass", "lnInst", "doName"} :
                Coalesce(getAttribute(d, fcda, a), "") = Coalesce(getAttribute(d, extRef, a), "")))

\* the FCDAs, outside Private, of the first IED outside Private with the
\* name the ExtRef has as iedName, whose six attributes are those of the
\* ExtRef, an absent attribute read as ''
findFCDAs(d, extRef) ==
  IF Tag(d, extRef) # "ExtRef" \/ closest(d, extRef, {"Private"}) # 0 THEN <<>>
  ELSE Let(First(SelectSeq(Pre(d, 1), LAMBDA element :
             /\ d[element].tag = "IED"
             /\ getAttribute(d, element, "name") = getAttribute(d, extRef, "iedName")
             /\ closest(d, element, {"Private"}) = 0)),
           LAMBDA ied :
    IF ied = 0 THEN <<>>
    ELSE SelectSeq(Descendants(d, ied), LAMBDA fcda :
           /\ d[fcda].tag = "FCDA"
           /\ closest(d, fcda, {"Private"}) = 0
           /\ \A a \in {"ldInst", "prefix", "lnClass", "lnInst", "doName", "daName"} :
                Coalesce(getAttribute(d, fcda, a), "") = Coalesce(getAttribute(d, extRef, a), "")))

\* the element, inside a Private element or as it is
InPrivate(private, t) == IF private THEN T("Private", NoAttrs, <<t>>) ELSE t

\* a publishing device with two data sets of one FCDA each
FindPublisherT(name, fcda1, fcda2, private2) ==
  T("IED", [name |-> name],
    <<T("LDevice", [inst |-> "LD0"],
        <<T("LN0", [lnClass |-> "LLN0"],
            <<T("DataSet", [name |-> "ds1"], <<T("FCDA", fcda1, <<>>)>>),
              T("DataSet", [name |-> "ds2"],
                <<InPrivate(private2, T("FCDA", fcda2, <<>>))>>)>>)>>)>>)

\* The documents findFCDAs is called in.  shadow: a device P inside a
\* Private element precedes the others; withP: there is a device P outside
\* Private; f.vd, f.vd2, f.da2: the attributes of the FCDAs of P; f.vr: the
\* attributes of the ExtRef.
FindDoc(f) ==
  AddTree(<<>>,
    T("SCL", SclAttrs("2007B4"),
      (IF f.shadow
         THEN <<T("Private", NoAttrs,
                  <<FindPublisherT("P", Attrs(FcdaAttributes, f.vr),
                                   Attrs(FcdaAttributes, f.vr), FALSE)>>)>>
         ELSE <<>>)
      \o (IF f.withP
            THEN <<FindPublisherT("P", Attrs(FcdaAttributes, f.vd),
                     With(Attrs(FcdaAttributes \ {"daName"}, f.vd2), "daName", f.da2),
                     f.private2)>>
            ELSE <<>>)
      \o <<FindPublisherT("Q", Attrs(FcdaAttributes, f.vr), Attrs(FcdaAttributes, f.vr), FALSE),
           T("IED", [name |-> "S"],
             <<T("LDevice", [inst |-> "LD0"],
                 <<T("LN0", [lnClass |-> "LLN0"],
                     <<T("Inputs", NoAttrs,
                         <<InPrivate(f.privateRef,
                             T("ExtRef", With(Attrs(FcdaAttributes, f.vr), "iedName", "P"),
                               <<>>))>>)>>)>>)>>)>>))

FindInputs ==
  [shadow : BOOLEAN, withP : BOOLEAN, private2 : BOOLEAN, privateRef : BOOLEAN,
   vd : {Null, "", "a"}, vd2 : {"", "a"}, da2 : {Null, "a"}, vr : {Null, "", "a"}]

InitFind ==
  /\ \E f \in FindInputs : doc = FindDoc(f)
  /\ last = [op |-> "none", extRef |-> 0, fcdas |-> <<>>]
  /\ run = Idle
  /\ dispatched = <<>>

\* findFCDAs is called for an element of the document
FindFCDAs(extRef) ==
  /\ last.op = "none"
  /\ last' = [op |-> "findFCDAs", extRef |-> extRef, fcdas |-> findFCDAs(doc, extRef)]
  /\ UNCHANGED <<doc, run, dispatched>>

NextFind == \E extRef \in 1..Len(doc) : FindFCDAs(extRef)

SpecFind == InitFind /\ [][NextFind]_vars

----------------------------------------------------------------------------
(* Properties of findFCDAs.                                                *)

\* the devices outside Private that the ExtRef names
NamedDevices(d, extRef) ==
  {n \in Elements(d, {"IED"}) :
     /\ getAttribute(d, n, "name") = getAttribute(d, extRef, "iedName")
     /\ closest(d, n, {"Private"}) = 0}

\* the attribute of the one element equals that of the other, absent
\* treated as empty
EqualOrEmpty(d, m, n, a) == OrEmpty(getAttribute(d, m, a)) = OrEmpty(getAttribute(d, n, a))

\* the FCDA is one of a device the ExtRef names and agrees with the ExtRef
\* in the six attributes
RefersTo(d, extRef, fcda) ==
  /\ Tag(d, fcda) = "FCDA"
  /\ closest(d, fcda, {"IED"}) \in NamedDevices(d, extRef)
  /\ \A a \in FcdaAttributes : EqualOrEmpty(d, fcda, extRef, a)

\* the cases in which nothing is returned
NoGenuineReference(d, extRef) ==
  \/ Tag(d, extRef) # "ExtRef"
  \/ closest(d, extRef, {"Private"}) # 0
  \/ NamedDevices(d, extRef) = {}

\* empty in the cases named, and otherwise only FCDAs the ExtRef refers to
OnlyReferredFCDAs ==
  last.op = "findFCDAs" =>
    /\ NoGenuineReference(doc, last.extRef) => last.fcdas = <<>>
    /\ \A i \in DOMAIN last.fcdas : RefersTo(doc, last.extRef, last.fcdas[i])

\* C28 as stated: findFCDAs returns at most one FCDA; it returns the empty
\* list when r is no ExtRef, lies under Private or names no device outside
\* Private, and otherwise only FCDAs of that device whose six attributes
\* equal those of r.
C28_AsStated ==
  OnlyReferredFCDAs /\ Len(last.fcdas) <= 1

\* C28: findFCDAs returns the empty list when r is no ExtRef, lies under
\* Private or names no device outside Private, and otherwise the FCDAs
\* outside Private of that device whose ldInst, prefix, lnClass, lnInst,
\* doName and daName equal those of r (absent treated as empty): all of
\* them, in document order, one for each data set that lists the data
\* attribute.
C28_AllMatchesOfTheDevice ==
  /\ OnlyReferredFCDAs
  /\ (last.op = "findFCDAs" /\ ~NoGenuineReference(doc, last.extRef)) =>
       last.fcdas = SelectSeq(Pre(doc, 1), LAMBDA n :
                      RefersTo(doc, last.extRef, n) /\ closest(doc, n, {"Private"}) = 0)

\* findFCDAs was called for an ExtRef whose device lists the data
\* attribute in two data sets, and returned both FCDAs
C28_Witness ==
  /\ last.op = "findFCDAs"
  /\ Len(last.fcdas) = 2
  /\ Tag(doc, last.extRef) = "ExtRef"

----------------------------------------------------------------------------
(* Properties of the supervision remover and of the round trip.            *)

\* the batch is at most one Remove, of a record that holds a Val with the
\* reference of the control block
RemovesRecordOf(d, controlBlock, edits) ==
  /\ Len(edits) <= 1
  /\ \A i \in DOMAIN edits :
       /\ edits[i].op = "Remove"
       /\ \E val \in Range(Pre(d, edits[i].node)) :
            Tag(d, val) = "Val" /\ TextIsReference(d, val, controlBlock)

\* C29: Remove is idempotent.  After the batch of
\* removeSubscriptionSupervision(C, D) has been applied, a second
\* removeSubscriptionSupervision(C, D) returns an empty batch; and the
\* batch is never more than one action, the Remove of a record whose Val
\* has the text controlBlockReference(C).
C29_RemoveIdempotent ==
  /\ \A cb \in ControlBlocks(doc), ied \in SubscriberIEDs(doc) :
       RemovesRecordOf(doc, cb, removeSubscriptionSupervision(doc, cb, ied))
  /\ (last.op = "remove" /\ last.edits # <<>>) =>
       removeSubscriptionSupervision(doc, last.cb, last.ied) = <<>>

\* a supervision was removed from a device that holds another one, of
\* another control block
C29_Witness ==
  /\ last.op = "remove"
  /\ last.edits # <<>>
  /\ \E cb \in ControlBlocks(doc) :
       removeSubscriptionSupervision(doc, cb, last.ied) # <<>>

\* the device of the one document that has the name of the device of the
\* other
SameDevice(d0, d1, ied) ==
  CHOOSE n \in Elements(d0, {"IED"}) :
    getAttribute(d0, n, "name") = getAttribute(d1, ied, "name")

\* the device as it is once the remove batch for the control block is
\* applied
AfterRemove(d, controlBlock, subscriberIED) ==
  ToTree(handleEdits(d, removeSubscriptionSupervision(d, controlBlock, subscriberIED)),
         subscriberIED)

\* C30: Instantiate / remove round trip.  When
\* instantiateSubscriptionSupervision(C, D) makes a new LN with the
\* OpenSCD.create marker and its batch is applied, applying the batch of
\* removeSubscriptionSupervision(C, D) restores the subtree of D to what it
\* was before the instantiate: the same LNs in the same order, the same
\* values.
C30_RoundTrip ==
  [][InsertedNewLN'
       => AfterRemove(doc', last'.cb, last'.ied)
            = ToTree(doc, SameDevice(doc, doc', last'.ied))]_vars

\* a new LN with the marker was made on a device that already held a
\* supervision in an LN without the marker
C30_Witness ==
  /\ InsertedNewLN
  /\ HasMarker(doc, NewLN)
  /\ \E n \in EarlierLNs : ~HasMarker(doc, n) /\ ~IsAvailableLN(doc, n, NewLNClass)

\* what names a control block or a device across two documents
KeyOf(d, n) == <<Tag(d, n), Components(d, n)>>

\* the step applies the remove batch for the control block and the device
\* of the instantiate batch that was applied just before
RemovedWhatWasInstantiated ==
  /\ last.op = "instantiate" /\ last.edits # <<>>
  /\ last'.op = "remove" /\ last'.edits # <<>>
  /\ KeyOf(doc', last'.cb) = KeyOf(doc, last.cb)
  /\ KeyOf(doc', last'.ied) = KeyOf(doc, last.ied)

\* C31: Re-supervision is always possible.  When a non-empty batch of
\* instantiateSubscriptionSupervision(C, D) was applied and then the batch
\* of removeSubscriptionSupervision(C, D), with no edit in between, a
\* further instantiateSubscriptionSupervision(C, D) returns a non-empty
\* batch again, whether the remove took out the DOI of a user-authored
\* record or an LN with the OpenSCD.create marker.
C31_ReSupervisionPossible ==
  [][RemovedWhatWasInstantiated
       => instantiateSubscriptionSupervision(doc', last'.cb, last'.ied, 0).edits # <<>>]_vars

\* the supervision instantiated just before has been removed again by
\* taking the DOI out of the first supervision LN of the device, an LN
\* without the marker
C31_Witness ==
  /\ last.op = "remove" /\ last.edits # <<>>
  /\ \E ln \in Range(ClassLNs(doc, last.ied, SupervisionType(Tag(doc, last.cb)))) :
       /\ ln = ClassLNs(doc, last.ied, SupervisionType(Tag(doc, last.cb)))[1]
       /\ ~HasMarker(doc, ln)
       /\ \A k \in Range(doc[ln].kids) :
            ~Is(doc, k, "DOI", "name", SupervisionName(SupervisionType(Tag(doc, last.cb))))
  /\ instantiateSubscriptionSupervision(doc, last.cb, last.ied, 0).edits = <<>>

----------------------------------------------------------------------------
(* Properties of the replacement: isolation of the devices.                *)

\* the device an Inputs section or a GSEControl was written for: the
\* iedName of its ExtRef, the device name its own name starts with
OwnerOf(d, n) ==
  IF Tag(d, n) = "Inputs" THEN {Str(getAttribute(d, d[n].kids[1], "iedName"))}
  ELSE {name \in Range(NameOrder) :
          \E i \in 1..(MaxGse + 1) :
            getAttribute(d, n, "name") = name \o "g" \o ToString(i)}

\* every Inputs section and GSEControl of the document is in the device it
\* was written for, or came with a clone of the template
OwnSectionsOnly(d) ==
  \A n \in Range(Pre(d, 1)) :
    d[n].tag \in {"Inputs", "GSEControl"} =>
      OwnerOf(d, n) \subseteq {getAttribute(d, closest(d, n, {"IED"}), "name"), "TPL"}

\* the device the step is about: the one whose swap or rewire batch is
\* built next
CurrentName ==
  IF run.pc = "swap" THEN SelectedIds(run.raw)[run.k]
  ELSE IF run.pc = "rewire" THEN last.name
  ELSE ""

\* the devices with the name, by value
DeviceTrees(d, name) == {ToTree(d, n) : n \in DevicesNamed(d, name)}

\* C32: Replacement frame and isolation.  When several devices are
\* replaced in one replaceIeds, each new device receives only Inputs
\* sections and GSEControls captured from the device of the same name, and
\* every step leaves every device but the one it is about as it is: the
\* devices not selected, the template, and the other selected devices.
C32_FrameAndIsolation ==
  [][/\ OwnSectionsOnly(doc')
     /\ \A name \in Range(NameOrder) \ {CurrentName} :
          DeviceTrees(doc', name) = DeviceTrees(doc, name)]_vars

\* two devices have been replaced and each holds an Inputs section
\* captured from the device of its name
C32_Witness ==
  /\ last.op = "rewire"
  /\ run.k = 2
  /\ Len(dispatched) = 4
  /\ \A name \in {"IED1", "IED2"} :
       \E n \in SectionsOf(doc, name, "Inputs") : OwnerOf(doc, n) = {name}

====
